---- MODULE Spec2Model ----
(***************************************************************************)
(* A model of the gdbus-client library (GDBusClient.cpp, GDBusClient.hpp,  *)
(* GDBusConverters.cpp): the registry of calls, the pool of D-Bus proxies, *)
(* the parameters of a call and the synchronous call GDBusCall::callSync.  *)
(*                                                                         *)
(* Granularity.  A member function that runs under one std::mutex          *)
(* (call_storage_t::add/get/remove, proxy_t::instanceFor,                  *)
(* signal_storage_t::add) is one atomic step.  callSync is cut at the      *)
(* places where it touches state shared between threads or blocks:         *)
(*   CallSyncBegin   calls.get(this) and the marshalling of the inputs     *)
(*   CallSyncLoop    one pass over the head of the retry loop: the test,   *)
(*                   the sleep, proxy_t::instanceFor and the proxy check   *)
(*   CallSyncInvoke  g_dbus_proxy_call_sync returns, attempts--            *)
(*   CallSyncAfter   the error check and the unmarshalling of the reply    *)
(*   CallSyncExit    ~call_cleanup_guard_t: the cleanup of the out params  *)
(*   CallSyncLeave   ~call_guard_t: the call data is released; return      *)
(***************************************************************************)
EXTENDS Integers, Sequences, FiniteSets, TLC

\* ------------------------------------------------------------------------
\* Bounds of the model
\* ------------------------------------------------------------------------
\* GDBusProxy objects that g_dbus_proxy_new_for_bus_sync can create in a run;
\* once they are used up every further creation fails.
MaxProxies == 3
\* callbacks that registerCallback can add to signal_map in a run
MaxCallbacks == 1
\* callbacks that registerCallback can add to signal_map in a run of the
\* program that processes signals
MaxRegistrations == 2

\* the GVariant objects a run makes
MaxGVariants == 2

\* the GDBusVariant-s in a vector given to GDBusTuple::assign
MaxHandles == 3

\* ------------------------------------------------------------------------
\* Constants of the program
\* ------------------------------------------------------------------------
MAX_ATTEMPTS == 3
WAIT_MS == 250

NULL == 0                       \* the null GDBusProxy*
NoCall == "nullptr"             \* the null GDBusCall*
NullPtr == "nullptr"            \* an empty shared_ptr<call_t>
Ptr == "ptr"                    \* a shared_ptr<call_t> that owns call data

Threads == {"t1", "t2"}
CallIds == {"A", "B"}           \* the addresses of the GDBusCall instances

\* the thread that constructs and destroys an instance: each thread has an
\* instance of its own, and calls callSync on any instance
Owner(p) == IF p = "A" THEN "t1" ELSE "t2"

\* the address of a GDBusParam that is not a member of a GDBusCall: a local
\* variable or a member of another struct
StrayIds == {"S"}

\* the GDBusParam at that address: GDBusParam<TYPE_I, dir, int> stray{"stray", 5}
StrayDecl(dir) == [name |-> "stray", type |-> "i", dir |-> dir, init |-> "5"]

\* ------------------------------------------------------------------------
\* obj_desc_t.  A string is the sequence of its components and separators:
\* "org.x" is <<"org", ".", "x">> and "/org/x" is <<"/", "org", "/", "x">>.
\* ------------------------------------------------------------------------
NameX == <<"org", ".", "x">>
NameY == <<"org", ".", "y">>
PathX == <<"/", "org", "/", "x">>

\* std::regex_replace(name, dot_regex, "/")
regex_replace(s) == [i \in DOMAIN s |-> IF s[i] = "." THEN "/" ELSE s[i]]

fromName(name) ==
    [name |-> name, path |-> <<"/">> \o regex_replace(name), iface |-> name]

fromDesc(d) ==
    [name |-> d.obj_name, path |-> d.obj_path, iface |-> d.iface_name]

\* obj.name + " " + obj.path + " " + obj.iface
target(obj) == obj.name \o <<" ">> \o obj.path \o <<" ">> \o obj.iface

\* a name of one element and a path without the leading '/'
BadName == <<"x">>
BadPath == <<"org", "/", "x">>

\* g_dbus_is_name: a unique name is not used; a well-known name is two or
\* more elements separated by '.'
g_dbus_is_name(s) ==
    /\ Len(s) >= 3
    /\ Len(s) % 2 = 1
    /\ \A i \in DOMAIN s : IF i % 2 = 1 THEN s[i] \notin {".", "/", ""}
                                        ELSE s[i] = "."

\* g_dbus_is_interface_name: the same shape of two or more elements
g_dbus_is_interface_name(s) == g_dbus_is_name(s)

\* g_variant_is_object_path of a path kept as a sequence: "/" alone, or
\* elements that each follow a '/'
is_object_path(s) ==
    \/ s = <<"/">>
    \/ /\ Len(s) >= 2
       /\ Len(s) % 2 = 0
       /\ \A i \in DOMAIN s : IF i % 2 = 1 THEN s[i] = "/"
                                           ELSE s[i] \notin {".", "/", ""}

\* g_dbus_is_member_name of the method names of the model: "Get-A" has a
\* character that a member name must not have
g_dbus_is_member_name(m) == m \in {"GetA", "GetB"}

\* the targets and methods a GDBusCall is constructed with
DescObjects ==
    { fromName(NameX), fromName(BadName),
      fromDesc([obj_name |-> NameX, obj_path |-> BadPath, iface_name |-> NameX]) }
DescMethods == {"GetA", "Get-A"}

Targets == {target(fromName(NameX)), target(fromName(NameY))}
           \cup {target(obj) : obj \in DescObjects}

\* ------------------------------------------------------------------------
\* The classes derived from GDBusCall that the program declares, after the
\* example of the header: the target of the call and the GDBusParam members
\* in the order of their declaration.  init is the second argument of the
\* GDBusParam constructor.
\* ------------------------------------------------------------------------
ClassObject(p) ==
    IF p = "A" THEN fromName(NameX)
    ELSE fromDesc([obj_name |-> NameX, obj_path |-> PathX, iface_name |-> NameX])

ClassMethod(p) == IF p = "A" THEN "GetA" ELSE "GetB"

ClassParams(p) ==
    IF p = "A"
      THEN << [name |-> "status", type |-> "i", dir |-> "out", init |-> "0"],
              [name |-> "path",   type |-> "o", dir |-> "in",  init |-> "/p"],
              [name |-> "count",  type |-> "i", dir |-> "in",  init |-> "0"],
              [name |-> "name",   type |-> "s", dir |-> "out", init |-> ""] >>
      ELSE << [name |-> "code",   type |-> "i", dir |-> "out", init |-> "7"] >>

\* ValueT{} of the holder types; a number is written as its decimal numeral
DefaultValue(type) == IF type = "i" THEN "0" ELSE ""

\* the values a caller assigns to the 'in' parameters
InputValues(type) == IF type = "i" THEN {"0"} ELSE {"", "/p"}

\* ------------------------------------------------------------------------
\* GVariant values and the converters
\* ------------------------------------------------------------------------
GV(type, val) == [type |-> type, val |-> val]
NullVariant == GV("null", "")   \* the null GVariant*

g_variant_is_object_path(s) == s \in {"/", "/p"}

\* marshal that makes an object path of any string
marshal_unvalidated(type, v) == GV(type, v)

\* converters::marshal: NULL when no GVariant is made
marshal(type, v) ==
    CASE type = "o" -> IF g_variant_is_object_path(v) THEN GV("o", v)
                                                     ELSE NullVariant
      [] OTHER      -> GV(type, v)

\* unmarshal without the test of the type of the GVariant
unmarshal_unchecked(type, gv, old) == [res |-> TRUE, value |-> gv.val]

\* converters::unmarshal: the result and the value left in the holder
unmarshal(type, gv, old) ==
    IF gv.type = type THEN [res |-> TRUE, value |-> gv.val]
                      ELSE [res |-> FALSE, value |-> old]

\* a tuple GVariant* as callSync holds it: null, or the children of the tuple
Tuple(children) == [isnull |-> FALSE, children |-> children]
NullTuple == [isnull |-> TRUE, children |-> <<>>]

\* the replies of the remote methods: the children of the reply tuple
Replies ==
    { <<>>,
      << GV("i", "7") >>,
      << GV("i", "7"), GV("s", "x") >>,
      << GV("i", "7"), GV("i", "7") >> }

\* ------------------------------------------------------------------------
\* gerror_t
\* ------------------------------------------------------------------------
GErr(domain, code) == [domain |-> domain, code |-> code]
NullErr == GErr("", "")         \* err == nullptr

\* the errors g_dbus_proxy_call_sync reports
RemoteErrors ==
    { GErr("G_DBUS_ERROR", "SERVICE_UNKNOWN"),
      GErr("G_DBUS_ERROR", "DISCONNECTED"),
      GErr("G_DBUS_ERROR", "ACCESS_DENIED"),
      GErr("G_IO_ERROR", "FAILED") }

\* errorMap with ACCESS_DENIED entered as SERVICE_UNKNOWN
errorMap_deniedAsUnknown ==
    [e \in { GErr("G_DBUS_ERROR", "SERVICE_UNKNOWN"),
             GErr("G_DBUS_ERROR", "DISCONNECTED"),
             GErr("G_DBUS_ERROR", "ACCESS_DENIED") } |->
        CASE e.code = "DISCONNECTED" -> "SERVER_DISCONNECT"
          [] OTHER                   -> "SERVICE_UNKNOWN"]

errorMap ==
    [e \in { GErr("G_DBUS_ERROR", "SERVICE_UNKNOWN"),
             GErr("G_DBUS_ERROR", "DISCONNECTED"),
             GErr("G_DBUS_ERROR", "ACCESS_DENIED") } |->
        CASE e.code = "SERVICE_UNKNOWN" -> "SERVICE_UNKNOWN"
          [] e.code = "DISCONNECTED"    -> "SERVER_DISCONNECT"
          [] OTHER                      -> "ACCESS_DENIED"]

errType(e) ==
    IF e = NullErr THEN "NOERR"
    ELSE IF e \in DOMAIN errorMap THEN errorMap[e] ELSE "UNSPECIFIED"

\* retriableErrors without SERVER_DISCONNECT
retriableErrors_noDisconnect == {"SERVICE_UNKNOWN"}

retriableErrors == {"SERVICE_UNKNOWN", "SERVER_DISCONNECT"}

\* the GErrors of a service that is not on the bus or has left it
DownErrors ==
    { GErr("G_DBUS_ERROR", "SERVICE_UNKNOWN"),
      GErr("G_DBUS_ERROR", "DISCONNECTED") }

VARIABLES
    storage_destroyed,      \* call_storage_t::storage_destroyed
    calls,                  \* call_storage_t::calls: GDBusCall* -> shared_ptr
    call_objs,              \* the call_t objects the shared pointers own
    callUnderConstruction,  \* thread_local callUnderConstruction
    alive,                  \* the GDBusCall instances within their lifetime
    cells,                  \* GDBusParam::value of the members of an instance
    proxies,                \* instanceFor::proxies: target -> proxy_t::proxy
    gproxies,               \* the GDBusProxy objects created so far
    signal_map,             \* signal_storage_t::signal_map
    pc,                     \* where each thread is in callSync
    this,                   \* the instance callSync runs on
    guard,                  \* call_guard: the instance whose data it owns
    in_tuple,               \* callSync: in_tuple
    out_tuple,              \* callSync: out_tuple
    err,                    \* callSync: err
    attempts,               \* callSync: attempts
    proxy,                  \* callSync: proxy.proxy handed to the remote call
    result,                 \* call_cleanup_guard_t::result, the return value
    hist,                   \* what the running operation has done so far
    lastRet,                \* per target, what the latest instanceFor returned
    loop,                   \* mainLoopInstance: the statics context and loop
    gcontext,               \* per GDBusProxy, the context it was created in
    delivered,              \* the latest run of onSignal
    trail,                  \* across the calls of callSync: how the latest
                            \* one that failed ended, and what each running
                            \* one found when it began
    member,                 \* per thread, the next GDBusParam member that the
                            \* constructor of the derived class constructs
    variants,               \* variants_map_t::variants: GDBusVariant* -> gv
    gvariants,              \* the GVariant objects made so far
    gdbusvariants,          \* the GDBusVariant objects within their lifetime
    vhist,                  \* the latest operation on a GDBusVariant
    assigning,              \* per thread, GDBusVariant::operator= in steps:
                            \* where it is, this, &v, and the variant_t
                            \* that variants.at(&v) has returned
    locking,                \* per thread, the table mutexes it holds and
                            \* the lock and unlock events still ahead in the
                            \* function it runs
    timeout,                \* per thread, waitAndProcessSignals: wait_msec
                            \* and whether the time is over
    codec,                  \* a value on its way through marshal, unmarshal
    curTuple,               \* thread_local curTuple
    tuples,                 \* tuples: GDBusTuple* -> tuple_t
    gdbustuples,            \* the GDBusTuple objects: under construction,
                            \* within their lifetime, or neither
    fields,                 \* fields: handle_t -> field_ptr
    tuple_op                \* the latest operation on a GDBusTuple

regVars  == <<storage_destroyed, calls, call_objs, callUnderConstruction, alive>>
poolVars == <<proxies, gproxies, lastRet>>
thVars   == <<pc, this, guard, in_tuple, out_tuple, err, attempts, proxy, result>>
sigVars  == <<loop, gcontext, delivered>>
convVars == <<variants, gvariants, gdbusvariants, vhist, assigning, locking,
             timeout, codec, curTuple, tuples, gdbustuples, fields, tuple_op>>
vars == <<regVars, cells, poolVars, signal_map, thVars, hist, sigVars, member,
         trail, convVars>>

\* ------------------------------------------------------------------------
\* Finite maps (std::map)
\* ------------------------------------------------------------------------
EmptyMap == [k \in {} |-> NullPtr]
MapPut(m, k, v) == (k :> v) @@ m
MapErase(m, k) == [x \in DOMAIN m \ {k} |-> m[x]]

\* ------------------------------------------------------------------------
\* call_t and param_t
\* ------------------------------------------------------------------------
call_t(obj, method) == [params |-> <<>>, object |-> obj, method |-> method]

\* call_t::verboseCheckNoErr
call_verboseCheckNoErr(call) ==
    /\ g_dbus_is_name(call.object.name)
    /\ is_object_path(call.object.path)
    /\ g_dbus_is_interface_name(call.object.iface)
    /\ g_dbus_is_member_name(call.method)

\* the address of a GDBusParam: the object it is a member of and its position
Par(obj, slot) == [obj |-> obj, slot |-> slot]

\* param_t::verboseCheckNoErr: there is a call under construction and the
\* GDBusParam lies within its body
param_verboseCheckNoErr(par, call) == call # NoCall /\ par.obj = call

\* param_t::param_t for PARAM_IN and PARAM_OUT: the closures of the param_t.
\* marshal and unmarshal say whether the std::function is set; cleanup is
\* set before the pre-conditions are checked.
param_t(par, decl, call) ==
    [ name      |-> decl.name,
      type      |-> decl.type,
      par       |-> par,
      marshal   |-> decl.dir = "in"  /\ param_verboseCheckNoErr(par, call),
      unmarshal |-> decl.dir = "out" /\ param_verboseCheckNoErr(par, call),
      cleanup   |-> decl.dir = "out" ]

\* GDBusParam::value after the param_t constructor
param_value(par, decl, call) ==
    IF param_verboseCheckNoErr(par, call) THEN decl.init
                                          ELSE DefaultValue(decl.type)

\* ------------------------------------------------------------------------
\* call_storage_t
\* ------------------------------------------------------------------------
\* verboseStateCheck that does not look at storage_destroyed
verboseStateCheck_skipped == TRUE

verboseStateCheck == ~storage_destroyed

\* shared_ptr::use_count of the call data registered for p
use_count(cs, p) ==
    (IF p \in DOMAIN cs /\ cs[p] = Ptr THEN 1 ELSE 0)
    + Cardinality({t \in Threads : guard[t] = p})

\* verboseCheckOwnership that accepts any number of further owners
verboseCheckOwnership_atLeast(n_users, n_owners) ==
    n_users >= n_owners \/ n_users = 0

verboseCheckOwnership(n_users, n_owners) == n_users = n_owners \/ n_users = 0

\* call_storage_t::add: emplace keeps an entry that is already there
add(cs, objs, p, call) ==
    IF verboseStateCheck /\ p \notin DOMAIN cs
      THEN [calls |-> MapPut(cs, p, Ptr), objs |-> MapPut(objs, p, call)]
      ELSE [calls |-> cs, objs |-> objs]

\* get whose guard takes the pointer out of the map
get_calls_moved(cs, p) ==
    IF verboseStateCheck THEN MapPut(cs, p, NullPtr) ELSE cs

\* call_storage_t::get.  calls[p] default-constructs the entry that is not
\* there; the guard copies the pointer, so the data has one more user.
get_calls(cs, p) ==
    IF verboseStateCheck /\ p \notin DOMAIN cs THEN MapPut(cs, p, NullPtr)
                                                ELSE cs

get_users(cs, p) ==
    IF p \in DOMAIN cs /\ cs[p] = Ptr THEN use_count(cs, p) + 1 ELSE 0

\* get that returns the guard without the check of the ownership
get_guard_unchecked(cs, p) ==
    IF verboseStateCheck /\ get_users(cs, p) # 0 THEN p ELSE NoCall

\* the instance whose data the returned guard owns; NoCall for an empty guard
get_guard(cs, p) ==
    IF /\ verboseStateCheck
       /\ verboseCheckOwnership(get_users(cs, p), 2)
       /\ get_users(cs, p) # 0
      THEN p
      ELSE NoCall

\* what logAssert writes during get
get_log(cs, p) ==
    IF ~verboseStateCheck THEN {"destroyed"}
    ELSE IF ~verboseCheckOwnership(get_users(cs, p), 2) THEN {"owners"}
    ELSE {}

\* call_storage_t::remove
remove(cs, p) == IF verboseStateCheck THEN MapErase(cs, p) ELSE cs

\* the call_t objects that still have an owner
owned(cs, objs, g) ==
    [p \in {q \in DOMAIN objs :
                \/ q \in DOMAIN cs /\ cs[q] = Ptr
                \/ \E t \in Threads : g[t] = q} |-> objs[p]]

\* param_t::moveIntoCall
moveIntoCall(cs, objs, cuc, param) ==
    [ calls |-> get_calls(cs, cuc),
      objs  |-> IF get_guard(cs, cuc) # NoCall
                  THEN [objs EXCEPT ![cuc].params = Append(@, param)]
                  ELSE objs ]

\* the GDBusParam members i.. of an instance p are constructed, in order, by
\* a thread whose call under construction is cuc
RECURSIVE PARAM_CTOR(_, _, _, _)
PARAM_CTOR(reg, p, cuc, i) ==
    IF i > Len(ClassParams(p)) THEN reg
    ELSE PARAM_CTOR(
            moveIntoCall(reg.calls, reg.objs, cuc,
                         param_t(Par(p, i), ClassParams(p)[i], cuc)),
            p, cuc, i + 1)

\* ------------------------------------------------------------------------
\* proxy_t
\* ------------------------------------------------------------------------
USE_EXISTING == "USE_EXISTING"
RECREATE == "RECREATE"

\* proxy_t::proxy_t(obj): g_dbus_proxy_new_for_bus_sync makes a new GDBusProxy
\* when created holds, and leaves proxy null otherwise
proxy_new(gp, created) ==
    IF created /\ Len(gp) < MaxProxies THEN Len(gp) + 1 ELSE NULL

\* operator= that overwrites the pointer and leaves the old GDBusProxy alone
proxy_assign_leak(px, gp, tgt, q) ==
    [ proxies |-> [px EXCEPT ![tgt] = q], gproxies |-> gp ]

\* proxy_t::operator=, on the entry of tgt and the temporary q: the GDBusProxy
\* the entry owned is unreferenced and the entry takes the one of q
proxy_assign(px, gp, tgt, q) ==
    IF px[tgt] # q
      THEN [ proxies  |-> [px EXCEPT ![tgt] = q],
             gproxies |-> IF px[tgt] # NULL
                            THEN [gp EXCEPT ![px[tgt]].live = FALSE]
                            ELSE gp ]
      ELSE [ proxies |-> px, gproxies |-> gp ]

\* instanceFor that constructs a proxy only when the policy is RECREATE
instanceFor_onlyRecreate(px, gp, obj, policy, created) ==
    LET tgt == target(obj)
        q   == proxy_new(gp, created)
        gp1 == IF q # NULL THEN Append(gp, [target |-> tgt, live |-> TRUE])
                           ELSE gp
        r   == IF policy = RECREATE
                 THEN proxy_assign(px, gp1, tgt, q)
                 ELSE [proxies |-> px, gproxies |-> gp]
    IN  [ proxies |-> r.proxies, gproxies |-> r.gproxies,
          ret |-> r.proxies[tgt], made |-> policy = RECREATE ]

\* instanceFor that makes a new proxy whatever the policy
instanceFor_recreating(px, gp, obj, policy, created) ==
    LET tgt == target(obj)
        q   == proxy_new(gp, created)
        gp1 == IF q # NULL THEN Append(gp, [target |-> tgt, live |-> TRUE])
                           ELSE gp
        r   == proxy_assign(px, gp1, tgt, q)
    IN  [ proxies |-> r.proxies, gproxies |-> r.gproxies,
          ret |-> r.proxies[tgt], made |-> TRUE ]

\* proxy_t::instanceFor: the map, the GDBusProxy objects and the proxy of the
\* entry returned
instanceFor(px, gp, obj, policy, created) ==
    LET tgt == target(obj)
        q   == proxy_new(gp, created)
        gp1 == IF q # NULL THEN Append(gp, [target |-> tgt, live |-> TRUE])
                           ELSE gp
        r   == IF policy = RECREATE \/ px[tgt] = NULL
                 THEN proxy_assign(px, gp1, tgt, q)
                 ELSE [proxies |-> px, gproxies |-> gp]
    IN  [ proxies |-> r.proxies, gproxies |-> r.gproxies,
          ret |-> r.proxies[tgt],
          made |-> policy = RECREATE \/ px[tgt] = NULL ]

\* verboseCheckNoErr that accepts a proxy_t without a GDBusProxy
proxy_verboseCheckNoErr_skipped(h) == TRUE

\* proxy_t::verboseCheckNoErr
proxy_verboseCheckNoErr(h) == h # NULL

\* the head of the loop that sleeps at every pass
sleep_for_always(sleeps, et) == Append(sleeps, WAIT_MS)

\* callSync, the head of the retry loop: std::this_thread::sleep_for when
\* the error type et of the previous attempt is one of retriableErrors
sleep_for(sleeps, et) ==
    IF et \in retriableErrors THEN Append(sleeps, WAIT_MS) ELSE sleeps

\* proxy_policy that never asks for a new proxy
proxy_policy_existing(attempts_left) == USE_EXISTING

\* callSync: proxy_policy of the pass over the loop that begins with
\* attempts_left in attempts
proxy_policy_of(attempts_left) ==
    IF attempts_left = MAX_ATTEMPTS THEN USE_EXISTING ELSE RECREATE

\* ------------------------------------------------------------------------
\* mainLoopInstance and the context of a new proxy
\* ------------------------------------------------------------------------
\* The statics of mainLoopInstance: "uninit" before the first invocation,
\* "running" (loop created, running), "quit" (g_main_loop_quit was called,
\* the loop is not running), "null" (loop == nullptr, context == nullptr).
LoopStates == {"uninit", "running", "quit", "null"}

\* mainLoopInstance that makes a new context and loop when there is none
mainLoopInstance_recreating(l) ==
    CASE l \in {"uninit", "null"} -> "running"
      [] l = "quit"               -> "null"
      [] OTHER                    -> l

\* the statics after an invocation of mainLoopInstance
mainLoopInstance(l) ==
    CASE l = "uninit" -> "running"
      [] l = "quit"   -> "null"
      [] OTHER        -> l

\* the value mainLoopInstance returns is not nullptr
loop_nonnull(l) == mainLoopInstance(l) = "running"

\* gcontext_switcher_t in proxy_t::proxy_t: the context the proxy is created
\* in, the one of the loop if there is a loop, the default one otherwise
gcontext_switcher_t(l) == IF loop_nonnull(l) THEN "loop" ELSE "default"

\* instanceFor constructs a proxy_t{obj}
constructs(px, obj, policy) == policy = "RECREATE" \/ px[target(obj)] = NULL

\* the statics of mainLoopInstance after instanceFor(obj, policy)
loop_after_instanceFor(l, px, obj, policy) ==
    IF constructs(px, obj, policy) THEN mainLoopInstance(l) ELSE l

\* the contexts of the GDBusProxy objects after instanceFor made gp1 of gp
gcontext_after_instanceFor(gc, l, gp, gp1) ==
    IF Len(gp1) > Len(gp) THEN Append(gc, gcontext_switcher_t(l)) ELSE gc

\* ------------------------------------------------------------------------
\* signal_storage_t
\* ------------------------------------------------------------------------
SignalNames == {"Changed"}
Callbacks == {"cb1", "cb2"}

key(sender_name, sig_name) == sender_name \o <<" ">> \o <<sig_name>>

signals_add(sm, sender, signal_name, callback) ==
    LET k == key(sender.name, signal_name)
    IN  MapPut(sm, k, Append(IF k \in DOMAIN sm THEN sm[k] ELSE <<>>, callback))

\* signal_storage_t::get: signal_map[key], which inserts an empty vector for
\* a key that is not in the map
signals_get(sm, sender_name, signal_name) ==
    LET k == key(sender_name, signal_name)
    IN  IF k \in DOMAIN sm THEN [map |-> sm, callbacks |-> sm[k]]
        ELSE [map |-> MapPut(sm, k, <<>>), callbacks |-> <<>>]

\* static_cast<bool>(callback): the std::function is not empty
NoCallback == "empty"
callable(cb) == cb # NoCallback

\* onSignal: the callbacks it calls, in the order of the calls
onSignal(sm, sender_name, signal_name) ==
    SelectSeq(signals_get(sm, sender_name, signal_name).callbacks, callable)

\* obj_name of the proxy_t that created the GDBusProxy of target tgt
obj_name_of(tgt) == CHOOSE n \in {NameX, NameY} : target(fromName(n)) = tgt

\* What onSignal reads through its last argument.  g_signal_connect is given
\* obj_name.c_str() of the temporary proxy_t{obj}; 'proxies[target] =
\* proxy_t{obj}' moves obj_name into the map and destroys the temporary, so
\* the pointer refers to a string that was moved from and destroyed.  A
\* build that moves the heap buffer of the string leaves the characters in
\* place; when the characters are stored inside the string object (a short
\* name) they are gone with the temporary.
Garbage == <<"?">>
user_data_reads(tgt) == {obj_name_of(tgt), Garbage}

registered(sm) ==
    LET RECURSIVE count(_)
        count(ks) == IF ks = {} THEN 0
                     ELSE LET k == CHOOSE x \in ks : TRUE
                          IN  Len(sm[k]) + count(ks \ {k})
    IN  count(DOMAIN sm)

\* ------------------------------------------------------------------------
\* The loops of callSync over call.params
\* ------------------------------------------------------------------------
cell(cl, par) == cl[par.obj][par.slot]

\* the loop over the input params with marshallers that captured the value
\* given to the constructor of the GDBusParam
RECURSIVE marshal_params_init(_, _, _, _, _)
marshal_params_init(params, cl, i, acc, n) ==
    IF i > Len(params) THEN [ok |-> TRUE, variants |-> acc, n |-> n]
    ELSE IF params[i].marshal
      THEN LET par == params[i].par
               in_variant == marshal(params[i].type,
                                     ClassParams(par.obj)[par.slot].init)
           IN  IF in_variant = NullVariant
                 THEN [ok |-> FALSE, variants |-> acc, n |-> n + 1]
                 ELSE marshal_params_init(params, cl, i + 1,
                                          Append(acc, in_variant), n + 1)
      ELSE marshal_params_init(params, cl, i + 1, acc, n)

\* the loop over the input params: whether all of them were marshalled, the
\* variants adopted and the number of marshallers invoked
RECURSIVE marshal_params(_, _, _, _, _)
marshal_params(params, cl, i, acc, n) ==
    IF i > Len(params) THEN [ok |-> TRUE, variants |-> acc, n |-> n]
    ELSE IF params[i].marshal
      THEN LET in_variant == marshal(params[i].type, cell(cl, params[i].par))
           IN  IF in_variant = NullVariant
                 THEN [ok |-> FALSE, variants |-> acc, n |-> n + 1]
                 ELSE marshal_params(params, cl, i + 1,
                                     Append(acc, in_variant), n + 1)
      ELSE marshal_params(params, cl, i + 1, acc, n)

\* the loop over the output params with out_var_iter advanced at every param,
\* 'in' or 'out'
RECURSIVE unmarshal_params_bymember(_, _, _, _, _)
unmarshal_params_bymember(params, cl, i, out_var_iter, out_variants) ==
    IF i > Len(params) THEN [ok |-> TRUE, cells |-> cl]
    ELSE IF params[i].unmarshal
      THEN IF out_var_iter > Len(out_variants)
             THEN [ok |-> FALSE, cells |-> cl]
             ELSE LET par == params[i].par
                      u   == unmarshal(params[i].type,
                                       out_variants[out_var_iter],
                                       cell(cl, par))
                      cl1 == [cl EXCEPT ![par.obj][par.slot] = u.value]
                  IN  IF u.res
                        THEN unmarshal_params_bymember(params, cl1, i + 1,
                                              out_var_iter + 1, out_variants)
                        ELSE [ok |-> FALSE, cells |-> cl1]
      ELSE unmarshal_params_bymember(params, cl, i + 1, out_var_iter + 1,
                                     out_variants)

\* the loop over the output params: out_var_iter is the position in
\* out_variants; the cells are written as the loop goes
RECURSIVE unmarshal_params(_, _, _, _, _)
unmarshal_params(params, cl, i, out_var_iter, out_variants) ==
    IF i > Len(params) THEN [ok |-> TRUE, cells |-> cl]
    ELSE IF params[i].unmarshal
      THEN IF out_var_iter > Len(out_variants)
             THEN [ok |-> FALSE, cells |-> cl]
             ELSE LET par == params[i].par
                      u   == unmarshal(params[i].type,
                                       out_variants[out_var_iter],
                                       cell(cl, par))
                      cl1 == [cl EXCEPT ![par.obj][par.slot] = u.value]
                  IN  IF u.res
                        THEN unmarshal_params(params, cl1, i + 1,
                                              out_var_iter + 1, out_variants)
                        ELSE [ok |-> FALSE, cells |-> cl1]
      ELSE unmarshal_params(params, cl, i + 1, out_var_iter, out_variants)

\* the cleanup loop that stops before the last param
RECURSIVE cleanup_params_short(_, _, _)
cleanup_params_short(params, cl, i) ==
    IF i >= Len(params) THEN cl
    ELSE LET par == params[i].par
         IN  cleanup_params_short(params,
                IF params[i].cleanup
                  THEN [cl EXCEPT ![par.obj][par.slot] =
                                        DefaultValue(params[i].type)]
                  ELSE cl,
                i + 1)

\* ~call_cleanup_guard_t: param.cleanup() of every param of the call
RECURSIVE cleanup_params(_, _, _)
cleanup_params(params, cl, i) ==
    IF i > Len(params) THEN cl
    ELSE LET par == params[i].par
         IN  cleanup_params(params,
                IF params[i].cleanup
                  THEN [cl EXCEPT ![par.obj][par.slot] =
                                        DefaultValue(params[i].type)]
                  ELSE cl,
                i + 1)

\* the cleanup closures of the 'out' params that the cleanup guard runs
n_cleanups(params) == Cardinality({i \in DOMAIN params : params[i].cleanup})

\* what g_dbus_proxy_call_sync leaves in out_tuple and err
Outcomes ==
    {[out |-> Tuple(r), err |-> NullErr] : r \in Replies}
    \cup {[out |-> NullTuple, err |-> e] : e \in RemoteErrors}
    \cup {[out |-> NullTuple, err |-> NullErr]}

\* ------------------------------------------------------------------------
\* The state
\* ------------------------------------------------------------------------
\* onSignal has not run
NoDelivery ==
    [ proxy     |-> NULL,     \* the GDBusProxy that emitted "g-signal"
      sender    |-> <<>>,     \* sender_name as onSignal read it
      signal    |-> "",       \* signal_name
      callbacks |-> <<>>,     \* the callbacks called, in the order of the calls
      by        |-> "none",   \* the thread that ran onSignal
      tick      |-> FALSE ]   \* flips at every run of onSignal

\* no callSync has failed on its proxy or its remote call
NoEnd == [fail |-> "none", ep |-> NULL, target |-> <<>>]
NoTrail == [ last  |-> NoEnd,
             of    |-> [t \in Threads |-> NoEnd],
             first |-> [t \in Threads |-> NULL] ]

HistInit ==
    [ nMarshal |-> 0,       \* marshallers invoked
      nLookup  |-> 0,       \* calls of proxy_t::instanceFor
      nInvoke  |-> 0,       \* calls of g_dbus_proxy_call_sync
      sleeps   |-> <<>>,    \* the durations of the calls of sleep_for
      nCleanup |-> 0,       \* cleanup closures of 'out' params run
      policy   |-> "",      \* the policy of the latest instanceFor
      target   |-> <<>>,    \* the target of the latest instanceFor
      down     |-> TRUE,    \* every remote call so far failed with one of
                            \* DownErrors
      fail     |-> "",      \* the check that made the operation return false
      log      |-> {},      \* what logAssert wrote during calls.get
      late     |-> FALSE,   \* the operation began with storage_destroyed set
      made     |-> FALSE,   \* the latest instanceFor constructed proxy_t{obj}
      sent     |-> <<>> ]   \* in_tuple as given to g_dbus_proxy_call_sync, per
                            \* call

\* ------------------------------------------------------------------------
\* The objects of GDBusConverters.cpp before any of them is made
\* ------------------------------------------------------------------------
\* the addresses a GDBusVariant can be constructed at
VariantIds == {"v1", "v2", "v3"}

\* the addresses a GDBusTuple can be constructed at
TupleIds == {"T1", "T2"}
NoTuple == "nullptr"

NoVariantOp == [op |-> "none", h |-> "v1", src |-> "v1", res |-> FALSE,
                ret |-> ""]

NotAssigning == [pc |-> "idle", self |-> "v1", v |-> "v1", tmp |-> 0]

NotLocking == [events |-> <<>>, held |-> {}]

NoTimeout == [wait_msec |-> "none", over |-> FALSE]

NoCodec == [stage |-> "idle"]

NoTupleOp == [op |-> "none", tuple |-> NoTuple, arg |-> <<>>, res |-> FALSE,
              at |-> 0, ret |-> ""]

InitConverters ==
    /\ variants = EmptyMap
    /\ gvariants = <<>>
    /\ gdbusvariants = [h \in VariantIds |-> FALSE]
    /\ vhist = NoVariantOp
    /\ assigning = [t \in Threads |-> NotAssigning]
    /\ locking = [t \in Threads |-> NotLocking]
    /\ timeout = [t \in Threads |-> NoTimeout]
    /\ curTuple = [t \in Threads |-> NoTuple]
    /\ tuples = EmptyMap
    /\ gdbustuples = [T \in TupleIds |-> "dead"]
    /\ fields = EmptyMap
    /\ tuple_op = NoTupleOp

InitCalls ==
    /\ storage_destroyed = FALSE
    /\ calls = EmptyMap
    /\ call_objs = EmptyMap
    /\ callUnderConstruction = [t \in Threads |-> NoCall]
    /\ alive = [p \in CallIds |-> FALSE]
    /\ cells = [p \in CallIds \cup StrayIds |-> <<>>]
    /\ proxies = [g \in Targets |-> NULL]
    /\ gproxies = <<>>
    /\ lastRet = [g \in Targets |-> NULL]
    /\ signal_map = EmptyMap
    /\ loop = "uninit"
    /\ gcontext = <<>>
    /\ delivered = NoDelivery
    /\ member = [t \in Threads |-> 0]
    /\ trail = NoTrail
    /\ pc = [t \in Threads |-> "idle"]
    /\ this = [t \in Threads |-> NoCall]
    /\ guard = [t \in Threads |-> NoCall]
    /\ in_tuple = [t \in Threads |-> NullTuple]
    /\ out_tuple = [t \in Threads |-> NullTuple]
    /\ err = [t \in Threads |-> NullErr]
    /\ attempts = [t \in Threads |-> 0]
    /\ proxy = [t \in Threads |-> NULL]
    /\ result = [t \in Threads |-> FALSE]
    /\ hist = [t \in Threads |-> HistInit]

Init == InitCalls /\ InitConverters /\ codec = NoCodec

\* no callSync is running on the instance p
Unused(p) == \A t \in Threads : this[t] # p

\* ------------------------------------------------------------------------
\* GDBusCall::GDBusCall followed by the constructors of the GDBusParam
\* members of the derived class, on thread t
\* ------------------------------------------------------------------------
\* The constructor of call_t calls verboseCheckNoErr and does not look at
\* what it returns: the call is registered whatever obj and method are.
ConstructAs(t, p, obj, method) ==
    /\ pc[t] = "idle"
    /\ ~alive[p]
    /\ LET reg == PARAM_CTOR(
                    add(calls, call_objs, p, call_t(obj, method)),
                    p, p, 1)
       IN  /\ calls' = reg.calls
           /\ call_objs' = reg.objs
    /\ callUnderConstruction' = [callUnderConstruction EXCEPT ![t] = p]
    /\ alive' = [alive EXCEPT ![p] = TRUE]
    /\ cells' = [cells EXCEPT ![p] =
                    [i \in DOMAIN ClassParams(p) |->
                        param_value(Par(p, i), ClassParams(p)[i], p)]]
    /\ UNCHANGED <<storage_destroyed, poolVars, signal_map, thVars, hist>>
    /\ UNCHANGED <<sigVars, member, trail, convVars>>

\* the construction of an instance of the class declared for p
Construct(t, p) == ConstructAs(t, p, ClassObject(p), ClassMethod(p))

\* ------------------------------------------------------------------------
\* The same construction in the steps in which another thread can see it
\* ------------------------------------------------------------------------
\* callUnderConstruction as one variable that all the threads share: every
\* thread reads what the latest constructor wrote
thread_local_shared(cuc, t) ==
    IF \E u \in Threads \ {t} : pc[u] = "ctor"
      THEN cuc[CHOOSE u \in Threads \ {t} : pc[u] = "ctor"]
      ELSE cuc[t]

\* thread_local callUnderConstruction as thread t reads it
thread_local(cuc, t) == cuc[t]

\* GDBusCall::GDBusCall on thread t
CtorBegin(t, p) ==
    /\ pc[t] = "idle"
    /\ ~alive[p]
    /\ LET reg == add(calls, call_objs, p,
                      call_t(ClassObject(p), ClassMethod(p)))
       IN  /\ calls' = reg.calls
           /\ call_objs' = reg.objs
    /\ callUnderConstruction' = [callUnderConstruction EXCEPT ![t] = p]
    /\ alive' = [alive EXCEPT ![p] = TRUE]
    /\ pc' = [pc EXCEPT ![t] = "ctor"]
    /\ this' = [this EXCEPT ![t] = p]
    /\ member' = [member EXCEPT ![t] = 1]
    /\ UNCHANGED <<storage_destroyed, cells, poolVars, signal_map, guard,
                   in_tuple, out_tuple, err, attempts, proxy, result, hist,
                   sigVars, trail, convVars>>

\* PARAM_CTOR of the member member[t] of the instance this[t], on thread t
CtorMember(t) ==
    /\ pc[t] = "ctor"
    /\ member[t] <= Len(ClassParams(this[t]))
    /\ LET p    == this[t]
           i    == member[t]
           cuc  == thread_local(callUnderConstruction, t)
           reg  == moveIntoCall(calls, call_objs, cuc,
                                param_t(Par(p, i), ClassParams(p)[i], cuc))
       IN  /\ calls' = reg.calls
           /\ call_objs' = reg.objs
           /\ cells' = [cells EXCEPT ![p] =
                 Append(@, param_value(Par(p, i), ClassParams(p)[i], cuc))]
    /\ member' = [member EXCEPT ![t] = @ + 1]
    /\ UNCHANGED <<storage_destroyed, callUnderConstruction, alive, poolVars,
                   signal_map, thVars, hist, sigVars, trail, convVars>>

\* the constructor of the derived class returns
CtorEnd(t) ==
    /\ pc[t] = "ctor"
    /\ member[t] > Len(ClassParams(this[t]))
    /\ pc' = [pc EXCEPT ![t] = "idle"]
    /\ this' = [this EXCEPT ![t] = NoCall]
    /\ member' = [member EXCEPT ![t] = 0]
    /\ UNCHANGED <<regVars, cells, poolVars, signal_map, guard, in_tuple,
                   out_tuple, err, attempts, proxy, result, hist, sigVars,
                   trail, convVars>>

\* GDBusCall::~GDBusCall on thread t; no call is in progress on the instance
Destroy(t, p) ==
    /\ pc[t] = "idle"
    /\ alive[p]
    /\ Unused(p)
    /\ calls' = remove(calls, p)
    /\ call_objs' = owned(calls', call_objs, guard)
    /\ callUnderConstruction' =
          [callUnderConstruction EXCEPT
              ![t] = IF @ = p THEN NoCall ELSE @]
    /\ alive' = [alive EXCEPT ![p] = FALSE]
    /\ cells' = [cells EXCEPT ![p] = <<>>]
    /\ UNCHANGED <<storage_destroyed, poolVars, signal_map, thVars, hist>>
    /\ UNCHANGED <<sigVars, member, trail, convVars>>

\* the caller assigns to the value of an 'in' parameter between two calls
SetInput(p, i, v) ==
    /\ alive[p]
    /\ Unused(p)
    /\ ClassParams(p)[i].dir = "in"
    /\ v # cells[p][i]
    /\ cells' = [cells EXCEPT ![p][i] = v]
    /\ UNCHANGED <<regVars, poolVars, signal_map, thVars, hist>>
    /\ UNCHANGED <<sigVars, member, trail, convVars>>

\* call_storage_t::~call_storage_t: the flag is set and the map is destroyed
Teardown ==
    /\ ~storage_destroyed
    /\ storage_destroyed' = TRUE
    /\ calls' = EmptyMap
    /\ call_objs' = owned(calls', call_objs, guard)
    /\ UNCHANGED <<callUnderConstruction, alive, cells, poolVars, signal_map,
                   thVars, hist>>
    /\ UNCHANGED <<sigVars, member, trail, convVars>>

\* ------------------------------------------------------------------------
\* GDBusCall::callSync on thread t
\* ------------------------------------------------------------------------
\* calls.get(this); the loop over the input params
CallSyncBegin(t, p) ==
    /\ pc[t] = "idle"
    /\ alive[p]
    /\ this' = [this EXCEPT ![t] = p]
    /\ calls' = get_calls(calls, p)
    /\ result' = [result EXCEPT ![t] = FALSE]
    /\ IF get_guard(calls, p) = NoCall
         THEN /\ pc' = [pc EXCEPT ![t] = "done"]
              /\ hist' = [hist EXCEPT ![t] =
                    [HistInit EXCEPT !.fail = "get",
                                     !.log = get_log(calls, p),
                                     !.late = storage_destroyed]]
              /\ UNCHANGED <<guard, in_tuple, out_tuple, err, attempts>>
         ELSE LET m == marshal_params(call_objs[p].params, cells, 1, <<>>, 0)
              IN  /\ guard' = [guard EXCEPT ![t] = p]
                  /\ hist' = [hist EXCEPT ![t] =
                        [HistInit EXCEPT !.nMarshal = m.n,
                                         !.fail = IF m.ok THEN ""
                                                          ELSE "marshal",
                                         !.late = storage_destroyed]]
                  /\ pc' = [pc EXCEPT ![t] = IF m.ok THEN "loop" ELSE "exit"]
                  /\ in_tuple' = [in_tuple EXCEPT ![t] =
                        IF m.ok THEN Tuple(m.variants) ELSE @]
                  /\ out_tuple' = [out_tuple EXCEPT ![t] = NullTuple]
                  /\ err' = [err EXCEPT ![t] = NullErr]
                  /\ attempts' = [attempts EXCEPT ![t] = MAX_ATTEMPTS]
    /\ UNCHANGED <<storage_destroyed, call_objs, callUnderConstruction, alive,
                   cells, poolVars, signal_map, proxy>>
    /\ UNCHANGED <<sigVars, member, convVars>>

\* the head of the retry loop up to the remote call: the loop test, the sleep
\* or the break, proxy_t::instanceFor and the check of the proxy
CallSyncLoop(t) ==
    /\ pc[t] = "loop"
    /\ LET call == call_objs[guard[t]]
           et   == errType(err[t])
       IN  IF \/ ~(out_tuple[t].isnull /\ attempts[t] # 0)
              \/ (et \notin retriableErrors /\ et # "NOERR")
             THEN /\ pc' = [pc EXCEPT ![t] = "after"]
                  /\ UNCHANGED <<poolVars, proxy, err, hist, loop, gcontext>>
             ELSE \E created \in BOOLEAN :
                  LET proxy_policy == proxy_policy_of(attempts[t])
                      r == instanceFor(proxies, gproxies, call.object,
                                       proxy_policy, created)
                      h == [hist[t] EXCEPT
                              !.sleeps = sleep_for(@, et),
                              !.nLookup = @ + 1,
                              !.made = r.made,
                              !.policy = proxy_policy,
                              !.target = target(call.object)]
                  IN  /\ proxies' = r.proxies
                      /\ gproxies' = r.gproxies
                      /\ loop' = loop_after_instanceFor(loop, proxies,
                                        call.object, proxy_policy)
                      /\ gcontext' = gcontext_after_instanceFor(gcontext,
                                        loop, gproxies, r.gproxies)
                      /\ lastRet' = [lastRet EXCEPT
                                        ![target(call.object)] = r.ret]
                      /\ proxy' = [proxy EXCEPT ![t] = r.ret]
                      /\ IF proxy_verboseCheckNoErr(r.ret)
                           THEN /\ err' = [err EXCEPT ![t] = NullErr]
                                /\ pc' = [pc EXCEPT ![t] = "invoke"]
                                /\ hist' = [hist EXCEPT ![t] = h]
                           ELSE /\ pc' = [pc EXCEPT ![t] = "exit"]
                                /\ hist' = [hist EXCEPT ![t] =
                                              [h EXCEPT !.fail = "proxy"]]
                                /\ UNCHANGED err
    /\ UNCHANGED <<regVars, cells, signal_map, this, guard, in_tuple,
                   out_tuple, attempts, result, delivered, member, convVars>>

\* g_dbus_proxy_call_sync returns with one of the outcomes outs; attempts--
CallSyncInvoke(t, outs) ==
    /\ pc[t] = "invoke"
    /\ \E o \in outs :
          /\ out_tuple' = [out_tuple EXCEPT ![t] = o.out]
          /\ err' = [err EXCEPT ![t] = o.err]
          /\ hist' = [hist EXCEPT ![t].nInvoke = @ + 1,
                                   ![t].sent = Append(@, in_tuple[t]),
                                   ![t].down = @ /\ o.err \in DownErrors]
    /\ attempts' = [attempts EXCEPT ![t] = @ - 1]
    /\ pc' = [pc EXCEPT ![t] = "loop"]
    /\ UNCHANGED <<regVars, cells, poolVars, signal_map, this, guard,
                   in_tuple, proxy, result>>
    /\ UNCHANGED <<sigVars, member, trail, convVars>>

\* after the loop: the check of err and out_tuple, the loop over the output
\* params, setSuccess
CallSyncAfter(t) ==
    /\ pc[t] = "after"
    /\ pc' = [pc EXCEPT ![t] = "exit"]
    /\ LET call == call_objs[guard[t]]
           u == unmarshal_params(call.params, cells, 1, 1,
                                 out_tuple[t].children)
       IN  IF err[t] # NullErr
             THEN /\ hist' = [hist EXCEPT ![t].fail = "gerror"]
                  /\ UNCHANGED <<cells, result>>
           ELSE IF out_tuple[t].isnull
             THEN /\ hist' = [hist EXCEPT ![t].fail = "out_tuple"]
                  /\ UNCHANGED <<cells, result>>
           ELSE /\ cells' = u.cells
                /\ result' = [result EXCEPT ![t] = u.ok]
                /\ hist' = [hist EXCEPT ![t].fail =
                                IF u.ok THEN "" ELSE "unmarshal"]
    /\ UNCHANGED <<regVars, poolVars, signal_map, this, guard, in_tuple,
                   out_tuple, err, attempts, proxy>>
    /\ UNCHANGED <<sigVars, member, trail, convVars>>

\* ~call_cleanup_guard_t
CallSyncExit(t) ==
    /\ pc[t] = "exit"
    /\ pc' = [pc EXCEPT ![t] = "done"]
    /\ LET call == call_objs[guard[t]]
       IN  IF ~result[t]
             THEN /\ cells' = cleanup_params(call.params, cells, 1)
                  /\ hist' = [hist EXCEPT ![t].nCleanup =
                                            n_cleanups(call.params)]
             ELSE UNCHANGED <<cells, hist>>
    /\ UNCHANGED <<regVars, poolVars, signal_map, this, guard, in_tuple,
                   out_tuple, err, attempts, proxy, result>>
    /\ UNCHANGED <<sigVars, member, trail, convVars>>

\* ~call_guard_t; callSync returns result[t]
CallSyncLeave(t) ==
    /\ pc[t] = "done"
    /\ pc' = [pc EXCEPT ![t] = "idle"]
    /\ guard' = [guard EXCEPT ![t] = NoCall]
    /\ call_objs' = owned(calls, call_objs, guard')
    /\ this' = [this EXCEPT ![t] = NoCall]
    /\ in_tuple' = [in_tuple EXCEPT ![t] = NullTuple]
    /\ out_tuple' = [out_tuple EXCEPT ![t] = NullTuple]
    /\ err' = [err EXCEPT ![t] = NullErr]
    /\ attempts' = [attempts EXCEPT ![t] = 0]
    /\ proxy' = [proxy EXCEPT ![t] = NULL]
    /\ result' = [result EXCEPT ![t] = FALSE]
    /\ hist' = [hist EXCEPT ![t] = HistInit]
    /\ UNCHANGED <<storage_destroyed, calls, callUnderConstruction, alive,
                   cells, poolVars, signal_map>>
    /\ UNCHANGED <<sigVars, member, convVars>>

\* ------------------------------------------------------------------------
\* GDBusSignal::registerCallback(sender_name, signal_name, callback)
\* ------------------------------------------------------------------------
RegisterCallback(t, sender_name, signal_name, callback) ==
    /\ pc[t] = "idle"
    /\ LET sender == fromName(sender_name)
       IN  /\ signal_map' = signals_add(signal_map, sender, signal_name,
                                        callback)
           /\ \E created \in BOOLEAN :
              LET r == instanceFor(proxies, gproxies, sender, USE_EXISTING,
                                   created)
              IN  /\ proxies' = r.proxies
                  /\ gproxies' = r.gproxies
                  /\ loop' = loop_after_instanceFor(loop, proxies, sender,
                                                    USE_EXISTING)
                  /\ gcontext' = gcontext_after_instanceFor(gcontext, loop,
                                                    gproxies, r.gproxies)
                  /\ lastRet' = [lastRet EXCEPT ![target(sender)] = r.ret]
                  /\ proxy' = [proxy EXCEPT ![t] = r.ret]
                  /\ result' = [result EXCEPT ![t] =
                                    proxy_verboseCheckNoErr(r.ret)]
                  /\ hist' = [hist EXCEPT ![t] =
                        [HistInit EXCEPT !.nLookup = 1,
                                         !.made = r.made,
                                         !.policy = USE_EXISTING,
                                         !.target = target(sender),
                                         !.late = storage_destroyed]]
    /\ pc' = [pc EXCEPT ![t] = "registered"]
    /\ UNCHANGED <<regVars, cells, this, guard, in_tuple, out_tuple, err,
                   attempts, delivered, member, trail, convVars>>

\* registerCallback returns result[t]
RegisterReturn(t) ==
    /\ pc[t] = "registered"
    /\ pc' = [pc EXCEPT ![t] = "idle"]
    /\ proxy' = [proxy EXCEPT ![t] = NULL]
    /\ result' = [result EXCEPT ![t] = FALSE]
    /\ hist' = [hist EXCEPT ![t] = HistInit]
    /\ UNCHANGED <<regVars, cells, poolVars, signal_map, this, guard,
                   in_tuple, out_tuple, err, attempts>>
    /\ UNCHANGED <<sigVars, member, trail, convVars>>

\* ------------------------------------------------------------------------
\* The specification
\* ------------------------------------------------------------------------
Next ==
    \/ \E p \in CallIds : Construct(Owner(p), p)
    \/ \E p \in CallIds : Destroy(Owner(p), p)
    \/ \E p \in CallIds, i \in 1..4 :
          /\ i \in DOMAIN ClassParams(p)
          /\ \E v \in InputValues(ClassParams(p)[i].type) : SetInput(p, i, v)
    \/ Teardown
    \/ \E t \in Threads, p \in CallIds : CallSyncBegin(t, p) /\ UNCHANGED trail
    \/ \E t \in Threads : CallSyncLoop(t) /\ UNCHANGED trail
    \/ \E t \in Threads : CallSyncInvoke(t, Outcomes)
    \/ \E t \in Threads : CallSyncAfter(t)
    \/ \E t \in Threads : CallSyncExit(t)
    \/ \E t \in Threads : CallSyncLeave(t) /\ UNCHANGED trail

Spec == Init /\ [][Next]_vars

\* The program that also registers signal callbacks.  The instances are not
\* destroyed, the inputs keep the value given at construction and the remote
\* methods answer with one of PoolOutcomes.
PoolOutcomes ==
    { [out |-> Tuple(<< GV("i", "7"), GV("s", "x") >>), err |-> NullErr],
      [out |-> NullTuple, err |-> GErr("G_DBUS_ERROR", "SERVICE_UNKNOWN")],
      [out |-> NullTuple, err |-> GErr("G_DBUS_ERROR", "ACCESS_DENIED")] }

NextPool ==
    \/ \E p \in CallIds : Construct(Owner(p), p)
    \/ Teardown
    \/ \E t \in Threads, p \in CallIds : CallSyncBegin(t, p) /\ UNCHANGED trail
    \/ \E t \in Threads : CallSyncLoop(t) /\ UNCHANGED trail
    \/ \E t \in Threads : CallSyncInvoke(t, PoolOutcomes)
    \/ \E t \in Threads : CallSyncAfter(t)
    \/ \E t \in Threads : CallSyncExit(t)
    \/ \E t \in Threads : CallSyncLeave(t) /\ UNCHANGED trail
    \/ \E t \in Threads, n \in {NameX, NameY}, sg \in SignalNames,
          cb \in Callbacks :
            /\ registered(signal_map) < MaxCallbacks
            /\ RegisterCallback(t, n, sg, cb)
    \/ \E t \in Threads : RegisterReturn(t)

SpecPool == Init /\ [][NextPool]_vars

\* ------------------------------------------------------------------------
\* waitAndProcessSignals(wait_msec) with a finite wait_msec, on thread t
\* ------------------------------------------------------------------------
\* loop_timeout_t timeout{wait_msec, mainLoopInstance()} and the first test
\* of the loop
WaitBegin(t) ==
    /\ pc[t] = "idle"
    /\ loop' = mainLoopInstance(loop)
    /\ IF loop_nonnull(loop)
         THEN /\ pc' = [pc EXCEPT ![t] = "waiting"]
              /\ hist' = [hist EXCEPT ![t] = HistInit]
              /\ UNCHANGED result
         ELSE /\ pc' = [pc EXCEPT ![t] = "waited"]
              /\ hist' = [hist EXCEPT ![t] = [HistInit EXCEPT !.fail = "loop"]]
              /\ result' = [result EXCEPT ![t] = FALSE]
    /\ UNCHANGED <<regVars, cells, poolVars, signal_map, this, guard,
                   in_tuple, out_tuple, err, attempts, proxy, gcontext,
                   delivered, member, trail, convVars>>

\* the run of onSignal for "g-signal" signal_name of the GDBusProxy h on
\* thread by, which read sender_name through its last argument
Deliver(h, signal_name, sender_name, by) ==
    /\ signal_map' = signals_get(signal_map, sender_name, signal_name).map
    /\ delivered' = [ proxy     |-> h,
                      sender    |-> sender_name,
                      signal    |-> signal_name,
                      callbacks |-> onSignal(signal_map, sender_name,
                                             signal_name),
                      by        |-> by,
                      tick      |-> ~delivered.tick ]

\* one g_main_context_iteration of the loop of waitAndProcessSignals that
\* dispatches a signal of a proxy created in the context of the loop
WaitDispatch(t, h, signal_name) ==
    /\ pc[t] = "waiting"
    /\ loop = "running"
    /\ h \in DOMAIN gproxies
    /\ gproxies[h].live
    /\ gcontext[h] = "loop"
    /\ \E sender_name \in user_data_reads(gproxies[h].target) :
          Deliver(h, signal_name, sender_name, t)
    /\ hist' = [hist EXCEPT ![t].nInvoke = 1]
    /\ UNCHANGED <<regVars, cells, poolVars, thVars, loop, gcontext, member, trail, convVars>>

\* the loop ends (the time is over or mainLoopInstance() is nullptr);
\* return mainLoopInstance() != nullptr
WaitEnd(t) ==
    /\ pc[t] = "waiting"
    /\ pc' = [pc EXCEPT ![t] = "waited"]
    /\ loop' = mainLoopInstance(loop)
    /\ result' = [result EXCEPT ![t] = loop_nonnull(loop)]
    /\ UNCHANGED <<regVars, cells, poolVars, signal_map, this, guard,
                   in_tuple, out_tuple, err, attempts, proxy, hist, gcontext,
                   delivered, member, trail, convVars>>

\* waitAndProcessSignals has returned result[t]
WaitReturn(t) ==
    /\ pc[t] = "waited"
    /\ pc' = [pc EXCEPT ![t] = "idle"]
    /\ result' = [result EXCEPT ![t] = FALSE]
    /\ hist' = [hist EXCEPT ![t] = HistInit]
    /\ UNCHANGED <<regVars, cells, poolVars, signal_map, this, guard,
                   in_tuple, out_tuple, err, attempts, proxy, sigVars, member, trail, convVars>>

\* ------------------------------------------------------------------------
\* stopProcessingSignals on thread t
\* ------------------------------------------------------------------------
\* stopProcessingSignals without the last mainLoopInstance()
stopProcessingSignals_quitOnly(l) ==
    IF loop_nonnull(l) THEN "quit" ELSE mainLoopInstance(l)

\* the statics of mainLoopInstance after stopProcessingSignals
stopProcessingSignals(l) ==
    IF loop_nonnull(l)
      THEN mainLoopInstance("quit")   \* g_main_loop_quit; mainLoopInstance()
      ELSE mainLoopInstance(l)

StopProcessingSignals(t) ==
    /\ pc[t] = "idle"
    /\ loop' = stopProcessingSignals(loop)
    /\ UNCHANGED <<regVars, cells, poolVars, signal_map, thVars, hist,
                   gcontext, delivered, member, trail, convVars>>

\* ------------------------------------------------------------------------
\* A signal of a proxy that was created without a loop (gcontext_switcher_t
\* pushed no context) is dispatched by whoever iterates the default context
\* of the application, outside of this library.
\* ------------------------------------------------------------------------
DefaultDispatch(h, signal_name) ==
    /\ h \in DOMAIN gproxies
    /\ gproxies[h].live
    /\ gcontext[h] = "default"
    /\ \E sender_name \in user_data_reads(gproxies[h].target) :
          Deliver(h, signal_name, sender_name, "application")
    /\ UNCHANGED <<regVars, cells, poolVars, thVars, hist, loop, gcontext,
                   member, trail, convVars>>

\* ------------------------------------------------------------------------
\* The program that registers callbacks, processes signals and makes calls
\* on the instance A that fail with SERVICE_UNKNOWN or succeed
\* ------------------------------------------------------------------------
SignalOutcomes ==
    { [out |-> Tuple(<< GV("i", "7"), GV("s", "x") >>), err |-> NullErr],
      [out |-> NullTuple, err |-> GErr("G_DBUS_ERROR", "SERVICE_UNKNOWN")] }

\* thread t1 makes the calls and registers the callbacks, thread t2 runs
\* waitAndProcessSignals and stopProcessingSignals
NextSignal ==
    \/ Construct("t1", "A")
    \/ CallSyncBegin("t1", "A") /\ UNCHANGED trail
    \/ CallSyncLoop("t1") /\ UNCHANGED trail
    \/ CallSyncInvoke("t1", SignalOutcomes)
    \/ CallSyncAfter("t1")
    \/ CallSyncExit("t1")
    \/ CallSyncLeave("t1") /\ UNCHANGED trail
    \/ \E n \in {NameX, NameY}, sg \in SignalNames, cb \in Callbacks :
            /\ registered(signal_map) < MaxRegistrations
            /\ RegisterCallback("t1", n, sg, cb)
    \/ RegisterReturn("t1")
    \/ WaitBegin("t2")
    \/ \E h \in 1..MaxProxies + 1, sg \in SignalNames :
            WaitDispatch("t2", h, sg)
    \/ WaitEnd("t2")
    \/ WaitReturn("t2")
    \/ StopProcessingSignals("t2")
    \/ \E h \in 1..MaxProxies + 1, sg \in SignalNames : DefaultDispatch(h, sg)

SpecSignal == Init /\ [][NextSignal]_vars

\* ------------------------------------------------------------------------
\* The program whose threads construct and destroy instances of both classes
\* ------------------------------------------------------------------------
NextCtor ==
    \/ \E t \in Threads, p \in CallIds : CtorBegin(t, p)
    \/ \E t \in Threads : CtorMember(t)
    \/ \E t \in Threads : CtorEnd(t)
    \/ \E t \in Threads, p \in CallIds : Destroy(t, p)
    \/ Teardown

SpecCtor == Init /\ [][NextCtor]_vars

\* ------------------------------------------------------------------------
\* variant_t, variants_map_t and GDBusVariant
\* ------------------------------------------------------------------------
callVars == <<regVars, cells, poolVars, signal_map, thVars, hist, sigVars,
              member, trail, assigning, locking, timeout>>
callVars_0 == <<regVars, cells, poolVars, signal_map, thVars, hist, sigVars,
                member, trail, assigning, timeout>>
varVars  == <<variants, gvariants, gdbusvariants, vhist>>
tupVars  == <<curTuple, tuples, gdbustuples, fields, tuple_op>>

\* the fields a reply can hold
FieldValues == {GV("i", "7"), GV("s", "x")}

\* a new GVariant object: its contents, its reference count, and the
\* GDBusVariant it is first stored for
GVariant(gv, first) ==
    [type |-> gv.type, val |-> gv.val, refs |-> 1, first |-> first]

\* variant_t::gv is NullGV or the position of the object in gvariants
NullGV == 0

g_variant_ref(gvs, g) == [gvs EXCEPT ![g].refs = @ + 1]

\* the object is freed when its count reaches 0
g_variant_unref(gvs, g) ==
    [gvs EXCEPT ![g].refs = IF @ > 0 THEN @ - 1 ELSE 0]

\* a copy constructor of variant_t that takes no reference
variant_t_copy_noref(gvs, gv) == gvs

\* variant_t::variant_t(const variant_t&): the GVariant objects afterwards
variant_t_copy(gvs, gv) == IF gv # NullGV THEN g_variant_ref(gvs, gv) ELSE gvs

\* variant_t::unref, which is also the destructor
variant_t_unref(gvs, gv) ==
    IF gv # NullGV THEN g_variant_unref(gvs, gv) ELSE gvs

\* an insert that replaces the entry of the key (insert_or_assign)
variants_insert_replacing(vm, gvs, k, v) ==
    IF k \in DOMAIN vm
    THEN [variants |-> MapPut(vm, k, v), gvs |-> variant_t_unref(gvs, vm[k])]
    ELSE [variants |-> MapPut(vm, k, v), gvs |-> gvs]

\* variants_map_t::insert: emplace moves v into the map when the key is
\* new; otherwise v is destroyed with the temporary that held it
variants_insert(vm, gvs, k, v) ==
    IF k \in DOMAIN vm
    THEN [variants |-> vm, gvs |-> variant_t_unref(gvs, v)]
    ELSE [variants |-> MapPut(vm, k, v), gvs |-> gvs]

\* variants_map_t::at: a copy of the entry, or an empty variant_t
variants_at(vm, gvs, k) ==
    IF k \in DOMAIN vm
    THEN [v |-> vm[k], gvs |-> variant_t_copy(gvs, vm[k])]
    ELSE [v |-> NullGV, gvs |-> gvs]

\* variants_map_t::erase: the entry is destroyed with its variant_t
variants_erase(vm, gvs, k) ==
    IF k \in DOMAIN vm
    THEN [variants |-> MapErase(vm, k),
          gvs |-> variant_t_unref(gvs, vm[k])]
    ELSE [variants |-> vm, gvs |-> gvs]

\* GDBusVariant::GDBusVariant(const GDBusVariant &v)
GDBusVariant_copy(vm, gvs, self, v) ==
    LET a == variants_at(vm, gvs, v)
    IN  variants_insert(vm, a.gvs, self, a.v)

\* GDBusVariant::operator=
GDBusVariant_assign(vm, gvs, self, v) ==
    LET e == variants_erase(vm, gvs, self)
        a == variants_at(e.variants, e.gvs, v)
    IN  variants_insert(e.variants, a.gvs, self, a.v)

\* the getT functions: getInt, getBool, getDouble, getString
Getters == {"i", "b", "d", "s"}

\* what a getT function returns when it sets result to false
DefaultRet(T) ==
    CASE T = "i" -> "0"
      [] T = "b" -> "false"
      [] T = "d" -> "0.0"
      [] T = "s" -> ""

\* the body of a getT function on the GVariant it has found
getT_of(gv, T) ==
    IF gv.type = T THEN [res |-> TRUE, ret |-> gv.val]
                   ELSE [res |-> FALSE, ret |-> DefaultRet(T)]

\* a read of a GVariant object that has been freed
Fault == [res |-> FALSE, ret |-> "fault"]

\* GDBusVariant::getInt, getBool, getDouble, getString: result and the
\* returned value.  The copy that variants.at returns is destroyed on
\* return, so the reference counts are as before.
getT(vm, gvs, self, T) ==
    LET a == variants_at(vm, gvs, self)
    IN  IF a.v = NullGV
        THEN {[res |-> FALSE, ret |-> DefaultRet(T)]}
        ELSE IF gvs[a.v].refs = 0
             THEN {Fault, getT_of(gvs[a.v], T)}
             ELSE {getT_of(gvs[a.v], T)}

VariantOp(op, h, src, r) ==
    [op |-> op, h |-> h, src |-> src, res |-> r.res, ret |-> r.ret]
NoRet == [res |-> FALSE, ret |-> ""]

\* GDBusVariant::GDBusVariant() at the address h
VariantNew(h) ==
    /\ ~gdbusvariants[h]
    /\ gdbusvariants' = [gdbusvariants EXCEPT ![h] = TRUE]
    /\ vhist' = VariantOp("new", h, h, NoRet)
    /\ UNCHANGED <<variants, gvariants, callVars, codec, tupVars>>

\* unmarshal(TYPE_ATUP): one field f of a tuple of the reply is stored for a
\* new element of the array, constructed at the address h
VariantUnmarshal(h, f) ==
    /\ ~gdbusvariants[h]
    /\ Len(gvariants) < MaxGVariants
    /\ gdbusvariants' = [gdbusvariants EXCEPT ![h] = TRUE]
    /\ LET field == Len(gvariants) + 1
           r == variants_insert(variants, Append(gvariants, GVariant(f, h)),
                                h, field)
       IN  /\ variants' = r.variants
           /\ gvariants' = r.gvs
    /\ vhist' = VariantOp("unmarshal", h, h, NoRet)
    /\ UNCHANGED <<callVars, codec, tupVars>>

\* the copy constructor at the address h, from the GDBusVariant at src
VariantCopy(h, src) ==
    /\ ~gdbusvariants[h]
    /\ gdbusvariants[src]
    /\ gdbusvariants' = [gdbusvariants EXCEPT ![h] = TRUE]
    /\ LET r == GDBusVariant_copy(variants, gvariants, h, src)
       IN  /\ variants' = r.variants
           /\ gvariants' = r.gvs
    /\ vhist' = VariantOp("copy", h, src, NoRet)
    /\ UNCHANGED <<callVars, codec, tupVars>>

\* operator= of the GDBusVariant at h, from the GDBusVariant at src
VariantAssign(h, src) ==
    /\ gdbusvariants[h]
    /\ gdbusvariants[src]
    /\ LET r == GDBusVariant_assign(variants, gvariants, h, src)
       IN  /\ variants' = r.variants
           /\ gvariants' = r.gvs
    /\ vhist' = VariantOp("assign", h, src, NoRet)
    /\ UNCHANGED <<gdbusvariants, callVars, codec, tupVars>>

\* GDBusVariant::~GDBusVariant of the GDBusVariant at h
VariantDestroy(h) ==
    /\ gdbusvariants[h]
    /\ gdbusvariants' = [gdbusvariants EXCEPT ![h] = FALSE]
    /\ LET r == variants_erase(variants, gvariants, h)
       IN  /\ variants' = r.variants
           /\ gvariants' = r.gvs
    /\ vhist' = VariantOp("destroy", h, h, NoRet)
    /\ UNCHANGED <<callVars, codec, tupVars>>

\* a getT function with the address h, whether or not a GDBusVariant is
\* within its lifetime there
VariantGet(h, T) ==
    /\ \E r \in getT(variants, gvariants, h, T) :
           vhist' = VariantOp("get", h, T, r)
    /\ UNCHANGED <<variants, gvariants, gdbusvariants, callVars, codec,
                   tupVars>>

NextVariant ==
    \/ \E h \in VariantIds : VariantNew(h)
    \/ \E h \in VariantIds, f \in FieldValues : VariantUnmarshal(h, f)
    \/ \E h, src \in VariantIds : VariantCopy(h, src)
    \/ \E h, src \in VariantIds : VariantAssign(h, src)
    \/ \E h \in VariantIds : VariantDestroy(h)
    \/ \E h \in VariantIds, T \in Getters : VariantGet(h, T)

SpecVariant == Init /\ [][NextVariant]_vars

\* ------------------------------------------------------------------------
\* The converters of the scalar types
\* ------------------------------------------------------------------------
\* An integer is the sequence of its bytes, the least significant first, in
\* two's complement.  A std::string is the sequence of its chars.  A double
\* is written as the integer it equals.
IntegerTypes == {"i", "u", "y", "n", "t"}
ScalarTypes == {"s", "b", "d"} \cup IntegerTypes

\* the g_variant_new functions take every type at a width of 16 bits
gsize_int16(type) == 2

\* the width in bytes of gint32, guint32, guchar, gint16 and guint64
gsize(type) ==
    CASE type = "i" -> 4
      [] type = "u" -> 4
      [] type = "y" -> 1
      [] type = "n" -> 2
      [] type = "t" -> 8

\* the width in bytes of int32_t, uint32_t, uint8_t, int16_t and uint64_t,
\* the types of the holders
sizeof_value(type) ==
    CASE type = "i" -> 4
      [] type = "u" -> 4
      [] type = "y" -> 1
      [] type = "n" -> 2
      [] type = "t" -> 8

\* the conversion of an integer to a type that is w bytes wide and not wider
\* than its own
Truncate(b, w) == SubSeq(b, 1, IF w < Len(b) THEN w ELSE Len(b))

Zero(w)      == [k \in 1..w |-> 0]
One(w)       == [k \in 1..w |-> IF k = 1 THEN 1 ELSE 0]
AllOnes(w)   == [k \in 1..w |-> 255]
TopBit(w)    == [k \in 1..w |-> IF k = w THEN 128 ELSE 0]
MaxSigned(w) == [k \in 1..w |-> IF k = w THEN 127 ELSE 255]

\* the char 0 and a byte that is not part of any UTF-8 sequence
NUL == "\\0"
BadByte == "\\xff"

\* std::string::c_str read as a C string: the chars before the first NUL
RECURSIVE c_str(_)
c_str(s) ==
    IF s = <<>> \/ Head(s) = NUL THEN <<>>
    ELSE <<Head(s)>> \o c_str(Tail(s))

g_utf8_validate(cs) == \A k \in DOMAIN cs : cs[k] # BadByte

\* marshal(TYPE_S): g_variant_new_string returns NULL for a C string that
\* is not UTF-8
marshal_TYPE_S(s) ==
    IF g_utf8_validate(c_str(s)) THEN GV("s", c_str(s)) ELSE NullVariant

unmarshal_TYPE_S(gv, s) ==
    IF gv.type = "s" THEN [res |-> TRUE, value |-> gv.val]
                     ELSE [res |-> FALSE, value |-> s]

\* marshal(TYPE_I), (TYPE_U), (TYPE_Y), (TYPE_N), (TYPE_T)
marshal_integer(type, i) == GV(type, Truncate(i, gsize(type)))

\* unmarshal(TYPE_I), (TYPE_U), (TYPE_Y), (TYPE_N), (TYPE_T)
unmarshal_integer(type, gv, i) ==
    IF gv.type = type
    THEN [res |-> TRUE, value |-> Truncate(gv.val, sizeof_value(type))]
    ELSE [res |-> FALSE, value |-> i]

\* marshal(TYPE_B): (gboolean)b
marshal_TYPE_B(b) == GV("b", IF b THEN 1 ELSE 0)

\* unmarshal(TYPE_B): static_cast<bool>(g_variant_get_boolean(gv))
unmarshal_TYPE_B(gv, b) ==
    IF gv.type = "b" THEN [res |-> TRUE, value |-> gv.val # 0]
                     ELSE [res |-> FALSE, value |-> b]

marshal_TYPE_D(x) == GV("d", x)

\* unmarshal(TYPE_D): x = static_cast<bool>(g_variant_get_double(gv))
unmarshal_TYPE_D(gv, x) ==
    IF gv.type = "d"
    THEN [res |-> TRUE, value |-> IF gv.val # 0 THEN 1 ELSE 0]
    ELSE [res |-> FALSE, value |-> x]

\* the overload of marshal that the type selects
marshal_scalar(type, v) ==
    CASE type = "s" -> marshal_TYPE_S(v)
      [] type = "b" -> marshal_TYPE_B(v)
      [] type = "d" -> marshal_TYPE_D(v)
      [] OTHER      -> marshal_integer(type, v)

\* the overload of unmarshal that the type selects
unmarshal_scalar(type, gv, old) ==
    CASE type = "s" -> unmarshal_TYPE_S(gv, old)
      [] type = "b" -> unmarshal_TYPE_B(gv, old)
      [] type = "d" -> unmarshal_TYPE_D(gv, old)
      [] OTHER      -> unmarshal_integer(type, gv, old)

\* the values given to marshal
ScalarInputs(type) ==
    CASE type = "s" -> {<<>>, <<"a">>, <<"a", "b">>, <<"a", NUL, "b">>,
                        <<BadByte>>}
      [] type = "b" -> {TRUE, FALSE}
      [] type = "d" -> {0, 1, 2, -3, 100}
      [] OTHER      -> {Zero(sizeof_value(type)), One(sizeof_value(type)),
                        AllOnes(sizeof_value(type)),
                        TopBit(sizeof_value(type)),
                        MaxSigned(sizeof_value(type))}

\* what the holder given to unmarshal contains before the call
HolderBefore(type) ==
    CASE type = "s" -> <<"z">>
      [] type = "b" -> FALSE
      [] type = "d" -> 5
      [] OTHER      -> [k \in 1..sizeof_value(type) |-> 7]

\* a value v of the type type, to be passed to marshal, and the GVariant to
\* unmarshal into a holder of the type dtype
CodecInput(type, v, dtype) ==
    [stage |-> "in", type |-> type, value |-> v, dtype |-> dtype,
     gv |-> NullVariant, res |-> FALSE, out |-> HolderBefore(dtype)]

InitCodec ==
    /\ InitCalls
    /\ InitConverters
    /\ \E type \in ScalarTypes, dtype \in ScalarTypes :
           \E v \in ScalarInputs(type) : codec = CodecInput(type, v, dtype)

\* marshal of the value; a NULL GVariant* is not passed on
CodecMarshal ==
    /\ codec.stage = "in"
    /\ LET gv == marshal_scalar(codec.type, codec.value)
       IN  codec' = [codec EXCEPT !.gv = gv,
                                  !.stage = IF gv.type = "null" THEN "failed"
                                                                ELSE "wire"]
    /\ UNCHANGED <<callVars, varVars, tupVars>>

\* unmarshal of the GVariant into the holder
CodecUnmarshal ==
    /\ codec.stage = "wire"
    /\ LET r == unmarshal_scalar(codec.dtype, codec.gv, codec.out)
       IN  codec' = [codec EXCEPT !.res = r.res, !.out = r.value,
                                  !.stage = "out"]
    /\ UNCHANGED <<callVars, varVars, tupVars>>

NextCodec == CodecMarshal \/ CodecUnmarshal

SpecCodec == InitCodec /\ [][NextCodec]_vars

\* ------------------------------------------------------------------------
\* Consecutive calls of callSync to one target
\* ------------------------------------------------------------------------
\* how the callSync with the record h ended, first being what its first
\* instanceFor returned: "proxy" when it returned for a proxy that was not
\* created, "call" when it had a proxy and the remote call failed
CallEnd(h, first) ==
    IF h.fail = "proxy"
    THEN [fail |-> "proxy", ep |-> NULL, target |-> h.target]
    ELSE IF h.fail \in {"gerror", "out_tuple"} /\ h.nInvoke > 0
    THEN [fail |-> "call", ep |-> first, target |-> h.target]
    ELSE NoEnd

\* callSync begins on the instance p: it is the next callSync to its target
\* after the one in last, if there is one
trail_begin(tr, t, p) ==
    LET next == tr.last.target = target(ClassObject(p))
    IN  [tr EXCEPT !.of[t] = IF next THEN tr.last ELSE NoEnd,
                   !.last = IF next THEN NoEnd ELSE @,
                   !.first[t] = NULL]

\* the head of the retry loop: ret is what instanceFor returned, when it was
\* called for the first time in this callSync
trail_loop(tr, t, looked_up, ret) ==
    [tr EXCEPT !.first[t] = IF looked_up THEN ret ELSE @]

\* callSync returns
trail_leave(tr, t, h) ==
    [tr EXCEPT !.last = IF CallEnd(h, tr.first[t]) # NoEnd
                          THEN CallEnd(h, tr.first[t]) ELSE @,
               !.of[t] = NoEnd,
               !.first[t] = NULL]

\* thread t1 calls the instance A and thread t2 the instance B, which have
\* one target; thread t2 also registers callbacks for signals of the object
\* of that target
NextRetry ==
    \/ \E p \in CallIds : Construct(Owner(p), p)
    \/ \E p \in CallIds :
          /\ CallSyncBegin(Owner(p), p)
          /\ trail' = trail_begin(trail, Owner(p), p)
    \/ \E t \in Threads :
          /\ CallSyncLoop(t)
          /\ trail' = trail_loop(trail, t,
                                 hist[t].nLookup = 0 /\ hist'[t].nLookup = 1,
                                 proxy'[t])
    \/ \E t \in Threads : CallSyncInvoke(t, PoolOutcomes)
    \/ \E t \in Threads : CallSyncAfter(t)
    \/ \E t \in Threads : CallSyncExit(t)
    \/ \E t \in Threads :
          /\ CallSyncLeave(t)
          /\ trail' = trail_leave(trail, t, hist[t])
    \/ \E sg \in SignalNames, cb \in Callbacks :
          /\ registered(signal_map) < MaxCallbacks
          /\ RegisterCallback("t2", NameX, sg, cb)
    \/ RegisterReturn("t2")

SpecRetry == Init /\ [][NextRetry]_vars

\* ------------------------------------------------------------------------
\* tuple_t, the fields and GDBusTuple
\* ------------------------------------------------------------------------
\* The structs derived from GDBusTuple: SITuple of the header, with the
\* members pstring name and pint value, at T1, and a struct with the members
\* pdouble and pbool at T2.  A getter is named by the D-Bus type it reads:
\* strInt "i", strDouble "d", strBool "b", strString "s".
TupleShape(T) == IF T = "T1" THEN <<"s", "i">> ELSE <<"d", "b">>

\* the address of the member i of the tuple at T
Fld(T, i) == [tuple |-> T, slot |-> i]

\* what the GDBusVariant-s given to assign resolve to; one without a value,
\* given to the tuple at T1, resolves to the null GVariant*
TupleInputs(T) ==
    IF T = "T1" THEN {GV("s", "x"), GV("i", "7"), NullVariant}
                ELSE {GV("d", "1.5"), GV("b", "true")}

\* the vectors of at most n GDBusVariant-s over the set S
RECURSIVE Vectors(_, _)
Vectors(S, n) ==
    IF n = 0 THEN {<<>>}
    ELSE Vectors(S, n - 1)
         \cup {Append(v, x) : v \in {w \in Vectors(S, n - 1) : Len(w) = n - 1},
                              x \in S}

\* tuple_t(): what tuples[pt] inserts for a key that is not there
tuple_t == [vars |-> <<>>, getters |-> <<>>, handles |-> <<>>]

\* tuples[pt]
tuples_at(tp, pt) == IF pt \in DOMAIN tp THEN tp[pt] ELSE tuple_t

\* tuple_t::newField
newField(tu, fh, getter) ==
    [tu EXCEPT !.handles = Append(@, fh), !.getters = Append(@, getter)]

addField(fd, tp, fh, ptuple, getter) ==
    [ fields |-> MapPut(fd, fh, [pt |-> ptuple, getter |-> getter]),
      tuples |-> MapPut(tp, ptuple, newField(tuples_at(tp, ptuple), fh,
                                             getter)) ]

delField(fd, fh) == MapErase(fd, fh)

\* std::find(handles.begin(), handles.end(), fh) as a position from 1;
\* Len(handles) + 1 stands for handles.end()
RECURSIVE find(_, _, _)
find(handles, fh, i) ==
    IF i > Len(handles) \/ handles[i] = fh THEN i
    ELSE find(handles, fh, i + 1)

\* tuple_t::getVarByHandle
getVarByHandle(tu, fh) ==
    LET pos == find(tu.handles, fh, 1)
    IN  IF pos <= Len(tu.vars) THEN tu.vars[pos] ELSE NullVariant

\* getField
getField(fd, tp, fh) ==
    IF fh \notin DOMAIN fd \/ fd[fh].pt \notin DOMAIN tp THEN NullVariant
    ELSE getVarByHandle(tp[fd[fh].pt], fh)

\* the loop of tuple_t::toString from the position i, str being the string
\* built so far as the sequence of its pieces
RECURSIVE toString_loop(_, _, _)
toString_loop(tu, i, str) ==
    IF i > Len(tu.vars) THEN <<"(">> \o str \o <<")">>
    ELSE LET r == getT_of(tu.vars[i], tu.getters[i])
         IN  IF ~r.res THEN <<>>
             ELSE toString_loop(tu, i + 1,
                     str \o (IF str = <<>> THEN <<>> ELSE <<" ">>)
                         \o <<"<", r.ret, ">">>)

\* toString that compares no sizes and stops at the shorter vector
toString_unsized(tu) ==
    toString_loop([tu EXCEPT !.vars =
                      SubSeq(@, 1, IF Len(@) < Len(tu.getters)
                                     THEN Len(@) ELSE Len(tu.getters))],
                  1, <<>>)

\* tuple_t::toString: the empty string is <<>>
toString(tu) ==
    IF Len(tu.vars) # Len(tu.getters) THEN <<>>
    ELSE toString_loop(tu, 1, <<>>)

\* tuple_t::assign: the tuple_t afterwards and the value returned
tuple_assign(tu, vs) ==
    LET tu1 == [tu EXCEPT !.vars = vs]
    IN  [tuple |-> tu1, res |-> toString(tu1) # <<>>]

\* the members of the tuple at T that have been constructed
Constructed(tp, T) == IF T \in DOMAIN tp THEN Len(tp[T].getters) ELSE 0

TupleOp(op, T, arg, res, at, ret) ==
    [op |-> op, tuple |-> T, arg |-> arg, res |-> res, at |-> at, ret |-> ret]

\* GDBusTuple::GDBusTuple() of a struct at the address T, on thread t
TupleCtor(t, T) ==
    /\ gdbustuples[T] = "dead"
    /\ \A U \in TupleIds : gdbustuples[U] # "ctor"
    /\ gdbustuples' = [gdbustuples EXCEPT ![T] = "ctor"]
    /\ curTuple' = [curTuple EXCEPT ![t] = T]
    /\ tuples' = MapErase(tuples, T)
    /\ tuple_op' = TupleOp("ctor", T, <<>>, FALSE, 0, "")
    /\ UNCHANGED <<fields, callVars, varVars, codec>>

\* pint::pint, pdouble::pdouble, pbool::pbool or pstring::pstring of the
\* next member of the struct under construction on thread t
TupleField(t) ==
    /\ curTuple[t] # NoTuple
    /\ gdbustuples[curTuple[t]] = "ctor"
    /\ LET T == curTuple[t]
           i == Constructed(tuples, T) + 1
       IN  /\ i <= Len(TupleShape(T))
           /\ LET r == addField(fields, tuples, Fld(T, i), curTuple[t],
                                TupleShape(T)[i])
              IN  /\ fields' = r.fields
                  /\ tuples' = r.tuples
           /\ tuple_op' = TupleOp("field", T, <<>>, FALSE, i, "")
    /\ UNCHANGED <<curTuple, gdbustuples, callVars, varVars, codec>>

\* the constructor of the struct returns
TupleCtorEnd(t) ==
    /\ curTuple[t] # NoTuple
    /\ gdbustuples[curTuple[t]] = "ctor"
    /\ Constructed(tuples, curTuple[t]) = Len(TupleShape(curTuple[t]))
    /\ gdbustuples' = [gdbustuples EXCEPT ![curTuple[t]] = "live"]
    /\ tuple_op' = TupleOp("made", curTuple[t], <<>>, FALSE, 0, "")
    /\ UNCHANGED <<curTuple, tuples, fields, callVars, varVars, codec>>

\* GDBusTuple::assign(variants) on the tuple at T
TupleAssign(T, vs) ==
    /\ gdbustuples[T] = "live"
    /\ LET r == tuple_assign(tuples_at(tuples, T), vs)
       IN  /\ tuples' = MapPut(tuples, T, r.tuple)
           /\ tuple_op' = TupleOp("assign", T, vs, r.res, 0, "")
    /\ UNCHANGED <<curTuple, gdbustuples, fields, callVars, varVars, codec>>

\* the conversion operator of the member i of the tuple at T: the value
\* returned and unusedResult
TupleRead(T, i) ==
    /\ gdbustuples[T] = "live"
    /\ i \in DOMAIN TupleShape(T)
    /\ LET r == getT_of(getField(fields, tuples, Fld(T, i)), TupleShape(T)[i])
       IN  tuple_op' = TupleOp("read", T, <<>>, r.res, i, r.ret)
    /\ UNCHANGED <<curTuple, tuples, gdbustuples, fields, callVars, varVars,
                   codec>>

\* the destructor of the struct at T on thread t: field::~field of each
\* member, then GDBusTuple::~GDBusTuple
RECURSIVE delFields(_, _, _)
delFields(fd, T, i) ==
    IF i = 0 THEN fd ELSE delFields(delField(fd, Fld(T, i)), T, i - 1)

TupleDestroy(t, T) ==
    /\ gdbustuples[T] = "live"
    /\ gdbustuples' = [gdbustuples EXCEPT ![T] = "dead"]
    /\ fields' = delFields(fields, T, Len(TupleShape(T)))
    /\ tuples' = MapErase(tuples, T)
    /\ curTuple' = [curTuple EXCEPT ![t] = NoTuple]
    /\ tuple_op' = TupleOp("dtor", T, <<>>, FALSE, 0, "")
    /\ UNCHANGED <<callVars, varVars, codec>>

\* one thread makes, assigns, reads and destroys the tuples
NextTuple ==
    \/ \E T \in TupleIds : TupleCtor("t1", T)
    \/ TupleField("t1")
    \/ TupleCtorEnd("t1")
    \/ \E T \in TupleIds :
          \E vs \in Vectors(TupleInputs(T), MaxHandles) : TupleAssign(T, vs)
    \/ \E T \in TupleIds, i \in 1..2 : TupleRead(T, i)
    \/ \E T \in TupleIds : TupleDestroy("t1", T)

SpecTuple == Init /\ [][NextTuple]_vars

\* ------------------------------------------------------------------------
\* A GDBusParam that is constructed outside the body of a GDBusCall
\* ------------------------------------------------------------------------
\* PARAM_CTOR of the GDBusParam at s on thread t.  verboseCheckNoErr fails,
\* because callUnderConstruction is nullptr or because s does not lie within
\* the body of the call under construction; moveIntoCall is called all the
\* same, with the closures the constructor had set before the check.
StrayCtor(t, s, dir) ==
    /\ pc[t] = "idle"
    /\ cells[s] = <<>>
    /\ LET cuc == thread_local(callUnderConstruction, t)
           reg == moveIntoCall(calls, call_objs, cuc,
                               param_t(Par(s, 1), StrayDecl(dir), cuc))
       IN  /\ calls' = reg.calls
           /\ call_objs' = reg.objs
           /\ cells' = [cells EXCEPT ![s] =
                 <<param_value(Par(s, 1), StrayDecl(dir), cuc)>>]
    /\ UNCHANGED <<storage_destroyed, callUnderConstruction, alive, poolVars,
                   signal_map, thVars, hist, sigVars, member, trail, convVars>>

\* the program assigns v to the value of the GDBusParam at s
StrayAssign(s, v) ==
    /\ cells[s] # <<>>
    /\ cells[s][1] # v
    /\ cells' = [cells EXCEPT ![s][1] = v]
    /\ UNCHANGED <<regVars, poolVars, signal_map, thVars, hist, sigVars,
                   member, trail, convVars>>

\* The program with a stray GDBusParam: each thread constructs its instance
\* and may construct the stray GDBusParam; thread t1 calls callSync.
NextStray ==
    \/ \E p \in CallIds : Construct(Owner(p), p)
    \/ \E t \in Threads, s \in StrayIds, dir \in {"in", "out"} :
          StrayCtor(t, s, dir)
    \/ \E s \in StrayIds, v \in {"0", "5"} : StrayAssign(s, v)
    \/ \E p \in CallIds : CallSyncBegin("t1", p) /\ UNCHANGED trail
    \/ CallSyncLoop("t1") /\ UNCHANGED trail
    \/ CallSyncInvoke("t1", PoolOutcomes)
    \/ CallSyncAfter("t1")
    \/ CallSyncExit("t1")
    \/ CallSyncLeave("t1") /\ UNCHANGED trail

SpecStray == Init /\ [][NextStray]_vars

\* ------------------------------------------------------------------------
\* The program whose GDBusCall is constructed with any target and method,
\* well-formed or not; thread t1 constructs the instance A and calls callSync
\* ------------------------------------------------------------------------
NextDesc ==
    \/ \E obj \in DescObjects, method \in DescMethods :
          ConstructAs("t1", "A", obj, method)
    \/ CallSyncBegin("t1", "A") /\ UNCHANGED trail
    \/ CallSyncLoop("t1") /\ UNCHANGED trail
    \/ CallSyncInvoke("t1", PoolOutcomes)
    \/ CallSyncAfter("t1")
    \/ CallSyncExit("t1")
    \/ CallSyncLeave("t1") /\ UNCHANGED trail

SpecDesc == Init /\ [][NextDesc]_vars

\* ------------------------------------------------------------------------
\* The program that assigns to the inputs of A between its calls: thread t1
\* constructs A, assigns any of AssignedValues to path and count, and calls
\* callSync
\* ------------------------------------------------------------------------
AssignedValues(type) == IF type = "i" THEN {"0", "5"} ELSE {"", "/", "/p"}

NextInput ==
    \/ Construct("t1", "A")
    \/ \E i \in 1..4 :
          /\ i \in DOMAIN ClassParams("A")
          /\ \E v \in AssignedValues(ClassParams("A")[i].type) :
                SetInput("A", i, v)
    \/ CallSyncBegin("t1", "A") /\ UNCHANGED trail
    \/ CallSyncLoop("t1") /\ UNCHANGED trail
    \/ CallSyncInvoke("t1", Outcomes)
    \/ CallSyncAfter("t1")
    \/ CallSyncExit("t1")
    \/ CallSyncLeave("t1") /\ UNCHANGED trail

SpecInput == Init /\ [][NextInput]_vars

\* ------------------------------------------------------------------------
\* GDBusVariant::operator= in the steps in which another thread can see it:
\* each call of variants_map_t is one locked region
\* ------------------------------------------------------------------------
\* variants.erase(this), on thread t, of the GDBusVariant at self from the
\* one at v
AssignErase(t, self, v) ==
    /\ assigning[t].pc = "idle"
    /\ gdbusvariants[self]
    /\ gdbusvariants[v]
    /\ LET r == variants_erase(variants, gvariants, self)
       IN  /\ variants' = r.variants
           /\ gvariants' = r.gvs
    /\ assigning' = [assigning EXCEPT ![t] =
                        [pc |-> "at", self |-> self, v |-> v, tmp |-> NullGV]]
    /\ vhist' = VariantOp("erase", self, v, NoRet)
    /\ UNCHANGED <<gdbusvariants, regVars, cells, poolVars, signal_map,
                   thVars, hist, sigVars, member, trail, locking, timeout,
                   codec, tupVars>>

\* variants.at(&v): the argument of insert
AssignAt(t) ==
    /\ assigning[t].pc = "at"
    /\ LET a == variants_at(variants, gvariants, assigning[t].v)
       IN  /\ gvariants' = a.gvs
           /\ assigning' = [assigning EXCEPT ![t].pc = "insert",
                                             ![t].tmp = a.v]
    /\ vhist' = VariantOp("at", assigning[t].self, assigning[t].v, NoRet)
    /\ UNCHANGED <<variants, gdbusvariants, regVars, cells, poolVars,
                   signal_map, thVars, hist, sigVars, member, trail, locking,
                   timeout, codec, tupVars>>

\* variants.insert(this, ...); vhist.res tells whether emplace has inserted
AssignInsert(t) ==
    /\ assigning[t].pc = "insert"
    /\ LET r == variants_insert(variants, gvariants, assigning[t].self,
                                assigning[t].tmp)
       IN  /\ variants' = r.variants
           /\ gvariants' = r.gvs
    /\ assigning' = [assigning EXCEPT ![t] = NotAssigning]
    /\ vhist' = VariantOp("insert", assigning[t].self, assigning[t].v,
                          [res |-> assigning[t].self \notin DOMAIN variants,
                           ret |-> ""])
    /\ UNCHANGED <<gdbusvariants, regVars, cells, poolVars, signal_map,
                   thVars, hist, sigVars, member, trail, locking, timeout,
                   codec, tupVars>>

\* operator= of thread t is running on the GDBusVariant at h, or reads it
InAssignment(t, h) ==
    assigning[t].pc # "idle" /\ h \in {assigning[t].self, assigning[t].v}

\* The program whose threads assign GDBusVariant-s to each other: thread t1
\* assigns any one to any one, thread t2 assigns any one to the one at v1; a
\* GDBusVariant is not destroyed during an assignment that uses it
NextStore ==
    \/ \E h \in VariantIds : VariantNew(h)
    \/ \E h \in VariantIds, f \in FieldValues : VariantUnmarshal(h, f)
    \/ \E self, v \in VariantIds : AssignErase("t1", self, v)
    \/ \E v \in VariantIds : AssignErase("t2", "v1", v)
    \/ \E t \in Threads : AssignAt(t)
    \/ \E t \in Threads : AssignInsert(t)
    \/ \E h \in VariantIds :
          /\ \A t \in Threads : ~InAssignment(t, h)
          /\ VariantDestroy(h)

SpecStore == Init /\ [][NextStore]_vars

\* ------------------------------------------------------------------------
\* The mutexes of the four tables: call_storage_t::call_mutex, proxy_mutex
\* of proxy_t::instanceFor, signal_storage_t::signals_mutex and
\* variants_map_t::mutex.  Every function of a table takes the mutex of the
\* table with a std::lock_guard for its locked region.
\* ------------------------------------------------------------------------
mutex_of(c) ==
    CASE c \in {"calls.add", "calls.get", "calls.remove"} -> "call_mutex"
      [] c = "instanceFor" -> "proxy_mutex"
      [] c \in {"signals.add", "signals.get"} -> "signals_mutex"
      [] c \in {"variants.insert", "variants.at", "variants.erase"}
            -> "variants.mutex"

\* the functions of the tables that a function of a table calls inside its
\* locked region: none of them calls any
Locked(c) == <<>>

\* the functions of the tables that the functions of the library call, in
\* the order of the calls; the arguments of a call are evaluated before it.
\* A callback that onSignal calls is code of the application, which may call
\* callSync or registerCallback.
TableCalls(f) ==
    CASE f = "GDBusCall" -> <<"calls.add", "calls.get">>
      [] f = "~GDBusCall" -> <<"calls.remove">>
      [] f = "callSync" -> <<"calls.get", "instanceFor", "instanceFor",
                             "variants.erase", "variants.insert">>
      [] f = "registerCallback" -> <<"signals.add", "instanceFor">>
      [] f = "onSignal" -> <<"signals.get">>
      [] f = "onSignal, callSync" ->
            <<"signals.get", "calls.get", "instanceFor", "instanceFor",
              "variants.erase", "variants.insert">>
      [] f = "onSignal, registerCallback" ->
            <<"signals.get", "signals.add", "instanceFor">>
      [] f = "GDBusVariant(const GDBusVariant&)" ->
            <<"variants.at", "variants.insert">>
      [] f = "operator=" ->
            <<"variants.erase", "variants.at", "variants.insert">>
      [] f = "getT" -> <<"variants.at">>
      [] f = "~GDBusVariant" -> <<"variants.erase">>

Functions ==
    {"GDBusCall", "~GDBusCall", "callSync", "registerCallback", "onSignal",
     "onSignal, callSync", "onSignal, registerCallback",
     "GDBusVariant(const GDBusVariant&)", "operator=", "getT",
     "~GDBusVariant"}

\* the lock and unlock events of a sequence of calls
RECURSIVE lock_events(_)
lock_events(cs) ==
    IF cs = <<>> THEN <<>>
    ELSE <<[e |-> "lock", m |-> mutex_of(Head(cs))]>>
         \o lock_events(Locked(Head(cs)))
         \o <<[e |-> "unlock", m |-> mutex_of(Head(cs))]>>
         \o lock_events(Tail(cs))

\* a lock_guard that does not unlock
lock_guard_kept(held, m) == held

\* std::lock_guard::~lock_guard
lock_guard_exit(held, m) == held \ {m}

\* thread t calls the function f
LockEnter(t, f) ==
    /\ locking[t].events = <<>>
    /\ locking' = [locking EXCEPT ![t].events = lock_events(TableCalls(f))]
    /\ UNCHANGED <<callVars_0, varVars, codec, tupVars>>

\* std::lock_guard::lock_guard: the thread goes on when no thread holds the
\* mutex
LockAcquire(t) ==
    /\ locking[t].events # <<>>
    /\ LET ev == Head(locking[t].events)
       IN  /\ ev.e = "lock"
           /\ \A u \in Threads : ev.m \notin locking[u].held
           /\ locking' = [locking EXCEPT
                             ![t] = [events |-> Tail(@.events),
                                     held |-> @.held \cup {ev.m}]]
    /\ UNCHANGED <<callVars_0, varVars, codec, tupVars>>

\* the end of the locked region
LockRelease(t) ==
    /\ locking[t].events # <<>>
    /\ LET ev == Head(locking[t].events)
       IN  /\ ev.e = "unlock"
           /\ locking' = [locking EXCEPT
                             ![t] = [events |-> Tail(@.events),
                                     held |-> lock_guard_exit(@.held, ev.m)]]
    /\ UNCHANGED <<callVars_0, varVars, codec, tupVars>>

NextLock ==
    \/ \E t \in Threads, f \in Functions : LockEnter(t, f)
    \/ \E t \in Threads : LockAcquire(t)
    \/ \E t \in Threads : LockRelease(t)

SpecLock == Init /\ [][NextLock]_vars

\* ------------------------------------------------------------------------
\* waitAndProcessSignals(wait_msec) in the steps in which another thread
\* can see it, with a finite wait_msec or WAIT_FOREVER
\* ------------------------------------------------------------------------
WAIT_FOREVER == "WAIT_FOREVER"
WaitTimes == {"finite", WAIT_FOREVER}

waitFrame == <<regVars, cells, poolVars, this, guard, in_tuple, out_tuple,
               err, attempts, proxy, hist, gcontext, member, trail, varVars,
               assigning, locking, codec, tupVars>>

\* thread t is inside waitAndProcessSignals; a thread that has faulted there
\* has not returned
InWait(t) == pc[t] \in {"wait_test", "wait_iteration", "fault"}

\* loop_timeout_t timeout{wait_msec, mainLoopInstance()}; t_end
WaitCall(t, wait_msec) ==
    /\ pc[t] = "idle"
    /\ loop' = mainLoopInstance(loop)
    /\ timeout' = [timeout EXCEPT ![t] =
                      [wait_msec |-> wait_msec, over |-> FALSE]]
    /\ pc' = [pc EXCEPT ![t] = "wait_test"]
    /\ UNCHANGED <<waitFrame, signal_map, delivered, result>>

\* the test of the loop and, when it fails, the return value
\* mainLoopInstance() != nullptr; when it holds, mainContextOf of the body
WaitTest(t) ==
    /\ pc[t] = "wait_test"
    /\ loop' = mainLoopInstance(loop)
    /\ IF /\ loop_nonnull(loop)
          /\ (timeout[t].wait_msec = WAIT_FOREVER \/ ~timeout[t].over)
         THEN /\ pc' = [pc EXCEPT ![t] = "wait_iteration"]
              /\ UNCHANGED result
         ELSE /\ pc' = [pc EXCEPT ![t] = "waited"]
              /\ result' = [result EXCEPT ![t] = loop_nonnull(loop)]
    /\ UNCHANGED <<waitFrame, signal_map, delivered, timeout>>

\* steady_clock::now() reaches t_end, and the timeout source of a finite
\* wait_msec becomes ready
TimeOver(t) ==
    /\ pc[t] \in {"wait_test", "wait_iteration"}
    /\ timeout[t].wait_msec = "finite"
    /\ ~timeout[t].over
    /\ timeout' = [timeout EXCEPT ![t].over = TRUE]
    /\ UNCHANGED <<waitFrame, signal_map, delivered, pc, result, loop>>

\* g_main_context_iteration(context, true) returns after the timeout source
\* or after the wakeup of g_main_loop_quit; it blocks while there is neither
WaitIteration(t) ==
    /\ pc[t] = "wait_iteration"
    /\ \/ timeout[t].wait_msec = "finite" /\ timeout[t].over
       \/ loop # "running"
    /\ pc' = [pc EXCEPT ![t] = "wait_test"]
    /\ UNCHANGED <<waitFrame, signal_map, delivered, result, loop, timeout>>

\* g_main_context_iteration dispatches a signal of a proxy created in the
\* context of the loop; a callback that onSignal calls may call
\* stopProcessingSignals (stop)
WaitSignal(t, h, signal_name, stop) ==
    /\ pc[t] = "wait_iteration"
    /\ loop = "running"
    /\ h \in DOMAIN gproxies
    /\ gproxies[h].live
    /\ gcontext[h] = "loop"
    /\ Deliver(h, signal_name, obj_name_of(gproxies[h].target), t)
    /\ stop => onSignal(signal_map, obj_name_of(gproxies[h].target),
                        signal_name) # <<>>
    /\ loop' = IF stop THEN stopProcessingSignals(loop) ELSE loop
    /\ pc' = [pc EXCEPT ![t] = "wait_test"]
    /\ UNCHANGED <<waitFrame, result, timeout>>

\* waitAndProcessSignals has returned result[t]
WaitLeave(t) ==
    /\ pc[t] = "waited"
    /\ pc' = [pc EXCEPT ![t] = "idle"]
    /\ result' = [result EXCEPT ![t] = FALSE]
    /\ timeout' = [timeout EXCEPT ![t] = NoTimeout]
    /\ UNCHANGED <<waitFrame, signal_map, delivered, loop>>

\* What becomes of a thread at pc inside waitAndProcessSignals when another
\* thread destroys the loop.  mainLoopInstance reads and writes its static
\* 'loop' without a lock, and g_main_loop_unref frees the context that
\* g_main_context_iteration may be polling: the thread goes on, or it
\* faults.
raced_benign(at, l) == {at}
raced(at, l) ==
    IF at \in {"wait_test", "wait_iteration"} /\ loop_nonnull(l)
    THEN {at, "fault"} ELSE {at}

\* stopProcessingSignals on thread t while other threads may be inside
\* waitAndProcessSignals
StopDuringWait(t) ==
    /\ pc[t] = "idle"
    /\ loop' = stopProcessingSignals(loop)
    /\ \E after \in [Threads -> {"idle", "wait_test", "wait_iteration",
                                 "waited", "fault", "registered"}] :
          /\ \A u \in Threads : after[u] \in raced(pc[u], loop)
          /\ pc' = after
    /\ UNCHANGED <<waitFrame, signal_map, delivered, result, timeout>>

\* The program in which thread t2 runs waitAndProcessSignals and thread t1
\* registers callbacks and calls stopProcessingSignals
NextWait ==
    \/ \E wait_msec \in WaitTimes : WaitCall("t2", wait_msec)
    \/ WaitTest("t2")
    \/ TimeOver("t2")
    \/ WaitIteration("t2")
    \/ \E h \in 1..MaxProxies, sg \in SignalNames, stop \in BOOLEAN :
          WaitSignal("t2", h, sg, stop)
    \/ WaitLeave("t2")
    \/ \E n \in {NameX, NameY}, sg \in SignalNames, cb \in Callbacks :
          /\ registered(signal_map) < MaxRegistrations
          /\ RegisterCallback("t1", n, sg, cb)
    \/ RegisterReturn("t1")
    \/ StopDuringWait("t1")

SpecWait == Init /\ [][NextWait]_vars

\* the thread that waits goes on as long as it can, and the time passes
SpecWaitFair ==
    /\ SpecWait
    /\ WF_vars(WaitTest("t2"))
    /\ WF_vars(WaitIteration("t2"))
    /\ WF_vars(TimeOver("t2"))
    /\ WF_vars(WaitLeave("t2"))

\* ------------------------------------------------------------------------
\* The program in which thread t1 constructs the instance A, any thread
\* destroys it, thread t1 constructs a stray GDBusParam and calls callSync
\* ------------------------------------------------------------------------
NextAcquire ==
    \/ Construct("t1", "A")
    \/ \E t \in Threads : Destroy(t, "A")
    \/ \E s \in StrayIds, dir \in {"in", "out"} : StrayCtor("t1", s, dir)
    \/ CallSyncBegin("t1", "A") /\ UNCHANGED trail
    \/ CallSyncLoop("t1") /\ UNCHANGED trail
    \/ CallSyncInvoke("t1", PoolOutcomes)
    \/ CallSyncAfter("t1")
    \/ CallSyncExit("t1")
    \/ CallSyncLeave("t1") /\ UNCHANGED trail

SpecAcquire == Init /\ [][NextAcquire]_vars

\* ------------------------------------------------------------------------
\* The program in which thread t1 constructs the instance A and both threads
\* call callSync on it, each thread going on as long as it can: every
\* instanceFor and every g_dbus_proxy_call_sync returns
\* ------------------------------------------------------------------------
NextCalls ==
    \/ Construct("t1", "A")
    \/ \E t \in Threads : CallSyncBegin(t, "A") /\ UNCHANGED trail
    \/ \E t \in Threads : CallSyncLoop(t) /\ UNCHANGED trail
    \/ \E t \in Threads : CallSyncInvoke(t, Outcomes)
    \/ \E t \in Threads : CallSyncAfter(t)
    \/ \E t \in Threads : CallSyncExit(t)
    \/ \E t \in Threads : CallSyncLeave(t) /\ UNCHANGED trail

SpecCalls == Init /\ [][NextCalls]_vars

SpecCallsFair ==
    /\ SpecCalls
    /\ \A t \in Threads :
          /\ WF_vars(CallSyncLoop(t) /\ UNCHANGED trail)
          /\ WF_vars(CallSyncInvoke(t, Outcomes))
          /\ WF_vars(CallSyncAfter(t))
          /\ WF_vars(CallSyncExit(t))
          /\ WF_vars(CallSyncLeave(t) /\ UNCHANGED trail)

\* ------------------------------------------------------------------------
\* Vocabulary of the properties
\* ------------------------------------------------------------------------
\* callSync of thread t has its return value and has not yet returned
Returning(t) == pc[t] = "done"

\* the declared 'out' parameters of the class of p, by position among the
\* members
Outputs(p) == {i \in DOMAIN ClassParams(p) : ClassParams(p)[i].dir = "out"}

\* the position of member i among the 'out' parameters
OutputRank(p, i) == Cardinality({j \in Outputs(p) : j <= i})

OutputsDefault(p) ==
    \A i \in Outputs(p) : cells[p][i] = DefaultValue(ClassParams(p)[i].type)

\* thread t enters callSync on p in this step
Enters(t, p) == pc[t] = "idle" /\ this'[t] = p /\ pc'[t] # "idle"

\* another thread owns a guard to the data of p
Overlapped(t, p) == \E u \in Threads \ {t} : guard[u] = p

\* a remote error that is neither 'service unknown' nor 'disconnected'
Fatal(e) == e # NullErr /\ e \notin DownErrors

LiveProxies(g) ==
    {h \in DOMAIN gproxies : gproxies[h].live /\ gproxies[h].target = g}

\* ------------------------------------------------------------------------
\* C1 (as stated): whenever callSync returns false, on any failure path, the
\* failed registry acquire included, every output parameter of the call holds
\* the default value of its type.
\* ------------------------------------------------------------------------
C1_ResetOnAnyFailure ==
    \A t \in Threads :
        Returning(t) /\ ~result[t] => OutputsDefault(this[t])

\* C1 (amended): whenever callSync returns false after calls.get gave it the
\* call data (marshalling failed, no proxy, remote error, missing or
\* undecodable output), every output parameter of the call holds the default
\* value of its type; when calls.get fails no cleanup closure runs.
C1_ResetAfterAcquire ==
    \A t \in Threads :
        Returning(t) /\ ~result[t] =>
            IF guard[t] # NoCall THEN OutputsDefault(this[t])
                                 ELSE hist[t].nCleanup = 0

\* a call on A failed at the second output after the first one was decoded
C1_Witness ==
    \E t \in Threads :
        /\ Returning(t) /\ ~result[t] /\ guard[t] = "A"
        /\ hist[t].fail = "unmarshal"
        /\ out_tuple[t].children = << GV("i", "7"), GV("i", "7") >>
        /\ OutputsDefault("A")

\* ------------------------------------------------------------------------
\* C2 (as stated): if every remote attempt of a callSync fails with 'service
\* unknown' or 'disconnected', the remote method is invoked exactly 3 times,
\* with 2 sleeps of 250 ms, and callSync returns false.
\* ------------------------------------------------------------------------
C2_ThreeAttempts ==
    \A t \in Threads :
        Returning(t) /\ hist[t].nInvoke >= 1 /\ hist[t].down =>
            /\ hist[t].nInvoke = 3
            /\ hist[t].sleeps = <<250, 250>>
            /\ ~result[t]

\* C2 (amended): if every proxy that instanceFor returns to the callSync is
\* valid and every remote attempt fails with 'service unknown' or
\* 'disconnected', the remote method is invoked exactly 3 times, with 2
\* sleeps of 250 ms, and callSync returns false.
C2_ThreeAttemptsValidProxy ==
    \A t \in Threads :
        Returning(t) /\ hist[t].nInvoke >= 1 /\ hist[t].down
                     /\ hist[t].fail # "proxy" =>
            /\ hist[t].nInvoke = 3
            /\ hist[t].sleeps = <<250, 250>>
            /\ ~result[t]

C2_Witness ==
    \E t \in Threads :
        /\ Returning(t) /\ hist[t].down /\ hist[t].nInvoke = 3
        /\ hist[t].fail = "gerror"
        /\ err[t] = GErr("G_DBUS_ERROR", "DISCONNECTED")

\* ------------------------------------------------------------------------
\* C3: once an attempt of callSync has failed with an error that is neither
\* 'service unknown' nor 'disconnected', callSync makes no further remote
\* call, instanceFor or sleep, and it returns false.
\* ------------------------------------------------------------------------
C3_FatalStops ==
    [][\A t \in Threads :
          /\ (pc[t] \in {"loop", "after", "exit"} /\ Fatal(err[t])
                => /\ hist'[t].nInvoke = hist[t].nInvoke
                   /\ hist'[t].nLookup = hist[t].nLookup
                   /\ hist'[t].sleeps = hist[t].sleeps
                   /\ err'[t] = err[t]
                   /\ UNCHANGED poolVars \/ pc'[t] = pc[t])
          /\ (Returning(t)' /\ Fatal(err'[t]) => ~result'[t])]_vars

\* access denied on the first attempt: one attempt, no sleep
C3_Witness ==
    \E t \in Threads :
        /\ Returning(t) /\ ~result[t]
        /\ err[t] = GErr("G_DBUS_ERROR", "ACCESS_DENIED")
        /\ hist[t].nInvoke = 1 /\ hist[t].nLookup = 1
        /\ hist[t].sleeps = <<>>

\* ------------------------------------------------------------------------
\* C4: callSync returns true exactly when an attempt, of at most 3, returned
\* a reply without error and every declared output parameter was decoded from
\* the reply field of its position; then no cleanup closure has run and each
\* output parameter holds the value of that field.
\* ------------------------------------------------------------------------
Decodable(p, children) ==
    \A i \in Outputs(p) :
        /\ OutputRank(p, i) <= Len(children)
        /\ children[OutputRank(p, i)].type = ClassParams(p)[i].type

C4_TrueIffDecoded ==
    \A t \in Threads :
        Returning(t) =>
            /\ result[t] <=> /\ ~out_tuple[t].isnull
                             /\ err[t] = NullErr
                             /\ hist[t].nInvoke \in 1..3
                             /\ Decodable(this[t], out_tuple[t].children)
            /\ result[t] =>
                  /\ hist[t].nCleanup = 0
                  /\ \A i \in Outputs(this[t]) :
                        cells[this[t]][i] =
                          out_tuple[t].children[OutputRank(this[t], i)].val

C4_Witness ==
    \E t \in Threads :
        /\ Returning(t) /\ result[t] /\ this[t] = "A"
        /\ hist[t].nInvoke = 2
        /\ cells["A"][1] = "7" /\ cells["A"][4] = "x"

\* ------------------------------------------------------------------------
\* C5: an instanceFor with USE_EXISTING that follows a lookup of the same
\* target which returned a proxy returns that same proxy and creates nothing,
\* whoever makes the lookup (callSync of any instance, registerCallback); an
\* instanceFor with RECREATE makes a new creation and stores its outcome in
\* the map: a proxy it returns did not exist before, and the proxy that was
\* cached before is never the one returned.
\* ------------------------------------------------------------------------
LookupBy(t) == hist'[t].nLookup = hist[t].nLookup + 1

C5_SharedUnlessRecreated ==
    [][\A t \in Threads :
          LookupBy(t) =>
            LET g   == hist'[t].target
                ret == proxy'[t]
                old == lastRet[g]
            IN  /\ lastRet'[g] = ret
                /\ hist'[t].policy = USE_EXISTING /\ old # NULL
                      => ret = old /\ gproxies' = gproxies
                /\ hist'[t].policy = RECREATE
                      => /\ proxies'[g] = ret
                         /\ ret # NULL => /\ ret \notin DOMAIN gproxies
                                          /\ gproxies'[ret].live
                         /\ old # NULL => /\ ret # old
                                          /\ ~gproxies'[old].live]_vars

\* registerCallback was given the proxy that a callSync is calling
C5_Witness ==
    \E t \in Threads, u \in Threads :
        /\ pc[t] = "registered" /\ proxy[t] # NULL
        /\ pc[u] = "invoke" /\ hist[u].policy = USE_EXISTING
        /\ proxy[u] = proxy[t]

C7_LaterAcquireProceeds ==
    [][\A t \in Threads, p \in CallIds :
          Enters(t, p) /\ Overlapped(t, p) /\ ~storage_destroyed =>
            /\ "owners" \in hist'[t].log
            /\ guard'[t] = p
            /\ pc'[t] \in {"loop", "exit"}]_vars

\* C7 (amended): when calls.get is made for an instance while a guard of an
\* earlier get for it is outstanding, the violation is logged and the later
\* get returns an empty guard: the later callSync returns false without a
\* remote call.
C7_LaterAcquireFails ==
    [][\A t \in Threads, p \in CallIds :
          Enters(t, p) /\ Overlapped(t, p) /\ ~storage_destroyed =>
            /\ "owners" \in hist'[t].log
            /\ guard'[t] = NoCall
            /\ Returning(t)' /\ ~result'[t]
            /\ hist'[t].nInvoke = 0]_vars

C7_Witness ==
    \E t \in Threads :
        /\ Returning(t) /\ guard[t] = NoCall
        /\ "owners" \in hist[t].log
        /\ Overlapped(t, this[t])

\* ------------------------------------------------------------------------
\* C8: a callSync that begins on an instance while the callSync of another
\* thread on the same instance is in progress detects the overlap and returns
\* false: it marshals no input, makes no instanceFor and no remote call and
\* writes no parameter of the instance.
\* ------------------------------------------------------------------------
C8_OverlapRejected ==
    [][\A t \in Threads :
          /\ \A p \in CallIds :
                Enters(t, p) /\ Overlapped(t, p) =>
                  /\ guard'[t] = NoCall
                  /\ Returning(t)' /\ ~result'[t]
                  /\ ~storage_destroyed => "owners" \in hist'[t].log
                  /\ hist'[t].nMarshal = 0 /\ hist'[t].nLookup = 0
                  /\ hist'[t].nInvoke = 0 /\ hist'[t].nCleanup = 0
                  /\ in_tuple'[t] = NullTuple
                  /\ cells' = cells
                  /\ UNCHANGED poolVars
          /\ Returning(t) /\ hist[t].fail = "get" /\ pc'[t] # pc[t] =>
                  cells' = cells /\ UNCHANGED poolVars]_vars

\* the later callSync has failed while the earlier one waits for its reply
C8_Witness ==
    \E t \in Threads, u \in Threads :
        /\ Returning(t) /\ hist[t].fail = "get" /\ ~result[t]
        /\ pc[u] = "invoke" /\ guard[u] = this[t]

C10_NoLookupAfterTeardown ==
    [][storage_destroyed =>
          /\ \A t \in Threads : ~LookupBy(t)
          /\ UNCHANGED poolVars]_vars

\* C10 (amended): once storage_destroyed is set, no callSync that begins
\* from then on calls instanceFor or the remote method; a callSync that got
\* its guard before goes on with its lookups, and registerCallback does not
\* look at the flag and still calls instanceFor, which creates a proxy when
\* none is cached.
C10_OnlyLateCallSyncStops ==
    \A t \in Threads :
        hist[t].late =>
            IF pc[t] = "registered"
              THEN hist[t].nLookup = 1 /\ hist[t].policy = USE_EXISTING
              ELSE hist[t].nLookup = 0 /\ hist[t].nInvoke = 0
                   /\ proxy[t] = NULL

\* after the teardown a callSync has failed before any lookup, and a
\* registerCallback has been given a proxy
C10_Witness ==
    \E t \in Threads, u \in Threads :
        /\ Returning(t) /\ hist[t].late /\ hist[t].nLookup = 0
        /\ hist[t].fail = "get"
        /\ pc[u] = "registered" /\ hist[u].late /\ proxy[u] # NULL

\* ------------------------------------------------------------------------
\* C11: at every run of onSignal for a signal of a proxy, the callbacks
\* called are all the callbacks registered so far under the key (name of the
\* object of the proxy, name of the signal), in the order of registration,
\* and no others; none when nothing is registered under the key.
\* ------------------------------------------------------------------------
Ran == delivered'.tick # delivered.tick

Registered(sm, k) == IF k \in DOMAIN sm THEN sm[k] ELSE <<>>

C11_AllRegisteredInOrder ==
    [][Ran =>
          delivered'.callbacks =
              Registered(signal_map,
                         key(obj_name_of(gproxies[delivered'.proxy].target),
                             delivered'.signal))]_vars

\* ------------------------------------------------------------------------
\* C12 (as stated): a waitAndProcessSignals that begins after
\* stopProcessingSignals has destroyed the loop and the context makes them
\* anew: it finds a running loop and iterates it.
\* ------------------------------------------------------------------------
WaitBegins(t) == pc[t] = "idle" /\ pc'[t] \in {"waiting", "waited"}

C12_WaitRecreatesLoop ==
    [][\A t \in Threads :
          loop = "null" /\ WaitBegins(t) =>
              loop' = "running" /\ pc'[t] = "waiting"]_vars

\* C12 (amended): a waitAndProcessSignals that begins after
\* stopProcessingSignals has destroyed the loop and the context does not
\* make them anew (they are made once, at the first mainLoopInstance()): it
\* finds no loop, iterates nothing, dispatches no signal and returns false.
C12_WaitFindsNoLoop ==
    [][\A t \in Threads :
          loop = "null" /\ WaitBegins(t) =>
              /\ loop' = "null"
              /\ pc'[t] = "waited" /\ ~result'[t]
              /\ delivered' = delivered]_vars

\* a wait that began after the stop has returned false although a proxy
\* with a signal handler is live
C12_Witness ==
    \E t \in Threads :
        /\ pc[t] = "waited" /\ hist[t].fail = "loop" /\ ~result[t]
        /\ loop = "null"
        /\ \E h \in DOMAIN gproxies : gproxies[h].live

\* ------------------------------------------------------------------------
\* C13: after stopProcessingSignals there is no loop for good: whatever is
\* called afterwards, mainLoopInstance() stays nullptr, every
\* waitAndProcessSignals that begins returns false without an iteration, a
\* waitAndProcessSignals that was running iterates no more, and
\* stopProcessingSignals called again changes nothing.
\* ------------------------------------------------------------------------
Stops == loop' # loop /\ pc' = pc

C13_StoppedForGood ==
    [][/\ Stops => loop' = "null"
       /\ stopProcessingSignals("null") = "null"
       /\ loop = "null" =>
             /\ loop' = "null"
             /\ \A t \in Threads :
                   /\ WaitBegins(t) => pc'[t] = "waited" /\ ~result'[t]
                   /\ pc[t] = "waiting" /\ pc'[t] # "waiting" =>
                         pc'[t] = "waited" /\ ~result'[t]
                   /\ Ran => delivered'.by # t]_vars

\* after the stop a proxy was created without a context of the loop and a
\* wait that began then has returned false
C13_Witness ==
    /\ loop = "null"
    /\ \E h \in DOMAIN gproxies : gproxies[h].live /\ gcontext[h] = "default"
    /\ \E t \in Threads : pc[t] = "waited" /\ hist[t].fail = "loop"

\* ------------------------------------------------------------------------
\* C14: whatever the interleaving of the constructors that run on two
\* threads, every param_t in the data of an instance belongs to a member of
\* that instance, and the members a thread has constructed so far are the
\* params of the instance it constructs, in the order of declaration.
\* ------------------------------------------------------------------------
C14_ParamsInOwnCall ==
    /\ \A p \in DOMAIN call_objs :
          \A k \in DOMAIN call_objs[p].params :
              call_objs[p].params[k].par = Par(p, k)
    /\ \A t \in Threads :
          pc[t] = "ctor" /\ this[t] \in DOMAIN call_objs =>
              Len(call_objs[this[t]].params) = member[t] - 1

\* both threads are in the middle of the constructors of different instances
C14_Witness ==
    /\ pc["t1"] = "ctor" /\ pc["t2"] = "ctor"
    /\ this["t1"] # this["t2"]
    /\ \A t \in Threads :
          /\ this[t] \in DOMAIN call_objs
          /\ member[t] > 1
          /\ Len(call_objs[this[t]].params) >= 1

\* what the GDBusVariant at h resolves to: the contents of a GVariant, the
\* null GVariant* when it has no entry or an empty one, or an object that
\* has been freed
HandleValue(vm, gvs, h) ==
    IF h \in DOMAIN vm /\ vm[h] # NullGV
    THEN IF gvs[vm[h]].refs > 0 THEN GV(gvs[vm[h]].type, gvs[vm[h]].val)
                                ELSE GV("freed", "")
    ELSE NullVariant

\* C15: a copy of a GDBusVariant refers to the GVariant of its original and
\* resolves to what the original resolved to; destroying a GDBusVariant
\* removes its own entry of the side table and nothing else, so every other
\* GDBusVariant, the copies of the destroyed one among them, resolves to the
\* same value as before; a getT function on an address without an entry
\* (never assigned, or destroyed) sets result to false and returns the
\* default, and a getT function on an entry reads a GVariant that is alive.
C15_HandlesShareValue ==
    [][ LET h == vhist'.h
            src == vhist'.src
        IN  /\ vhist'.op = "copy" =>
                 /\ h \in DOMAIN variants'
                 /\ variants'[h] = IF src \in DOMAIN variants
                                   THEN variants[src] ELSE NullGV
                 /\ HandleValue(variants', gvariants', h)
                      = HandleValue(variants, gvariants, src)
                 /\ HandleValue(variants', gvariants', src)
                      = HandleValue(variants, gvariants, src)
            /\ vhist'.op = "destroy" =>
                 /\ variants' = MapErase(variants, h)
                 /\ \A k \in VariantIds \ {h} :
                        HandleValue(variants', gvariants', k)
                          = HandleValue(variants, gvariants, k)
            /\ vhist'.op = "get" =>
                 IF h \in DOMAIN variants /\ variants[h] # NullGV
                 THEN /\ gvariants[variants[h]].refs > 0
                      /\ [res |-> vhist'.res, ret |-> vhist'.ret]
                           = getT_of(gvariants[variants[h]], src)
                 ELSE /\ ~vhist'.res
                      /\ vhist'.ret = DefaultRet(src)
      ]_vars

\* a getT function has returned the value of a GVariant for a GDBusVariant
\* that is not the one the GVariant was first stored for, after that one was
\* destroyed
C15_Witness ==
    /\ vhist.op = "get"
    /\ vhist.res
    /\ vhist.h \in DOMAIN variants
    /\ variants[vhist.h] # NullGV
    /\ gvariants[variants[vhist.h]].first # vhist.h
    /\ ~gdbusvariants[gvariants[variants[vhist.h]].first]

\* the width in bits of the D-Bus types i, u, y, n and t
WireBits(type) ==
    CASE type = "i" -> 32
      [] type = "u" -> 32
      [] type = "y" -> 8
      [] type = "n" -> 16
      [] type = "t" -> 64

\* v is a value of the D-Bus type: a D-Bus string is valid UTF-8 and holds no
\* char 0; an integer has the width of its type
DBusValue(type, v) ==
    CASE type = "s" -> \A k \in DOMAIN v : v[k] \notin {NUL, BadByte}
      [] type \in IntegerTypes -> Len(v) * 8 = WireBits(type)
      [] OTHER -> TRUE

\* C16: for the types s, i, u, y, n, t and b, marshal makes a GVariant of
\* every value of the type, 0, the smallest and the largest integer and the
\* empty string among them, and unmarshal of that GVariant into a holder of
\* the same type returns true and leaves the value in the holder.
C16_ScalarRoundTrip ==
    (/\ codec.stage # "idle"
     /\ codec.type \in ScalarTypes \ {"d"}
     /\ DBusValue(codec.type, codec.value))
    => /\ codec.stage # "failed"
       /\ (codec.stage = "out" /\ codec.dtype = codec.type)
            => codec.res /\ codec.out = codec.value

\* the largest 64-bit unsigned integer has been through marshal and
\* unmarshal
C16_Witness ==
    /\ codec.stage = "out"
    /\ codec.type = "t"
    /\ codec.dtype = "t"
    /\ codec.value = AllOnes(8)
    /\ codec.res
    /\ codec.out = AllOnes(8)

\* C17: for the type d, unmarshal of the GVariant that marshal made of x
\* into a double returns true and leaves x in it, for every x.
C17_DoubleRoundTrip ==
    (/\ codec.stage = "out"
     /\ codec.type = "d"
     /\ codec.dtype = "d")
    => codec.res /\ codec.out = codec.value

\* the first instanceFor of the callSync of thread t is called in this step
FirstLookup(t) ==
    pc[t] = "loop" /\ hist[t].nLookup = 0 /\ hist'[t].nLookup = 1

\* the instanceFor of thread t in this step constructs proxy_t{obj}: the
\* entry of the target holds a GDBusProxy that did not exist before, or none
Creates(t) ==
    /\ hist'[t].made
    /\ \/ proxy'[t] = NULL
       \/ /\ Len(gproxies') = Len(gproxies) + 1
          /\ proxy'[t] = Len(gproxies')
    /\ proxies'[hist'[t].target] = proxy'[t]

\* the callSync of thread t returns in this step what its first attempt gave
FirstAttemptDecided(t) ==
    /\ pc[t] = "after"
    /\ pc'[t] = "exit"
    /\ hist[t].nInvoke = 1
    /\ out_tuple[t].isnull = FALSE
    /\ err[t] = NullErr
    /\ Decodable(this[t], out_tuple[t].children)

\* C18 (as stated): after a callSync has returned false because no proxy was
\* created, the next callSync to the same target constructs a proxy in its
\* first attempt, and returns true if the proxy is created and the remote
\* call returns the declared outputs.
C18_NextCallCreates ==
    [][ \A t \in Threads :
          trail.of[t].fail = "proxy" =>
            /\ FirstLookup(t) => Creates(t)
            /\ FirstAttemptDecided(t) => result'[t]
      ]_vars

\* C18 (amended): a callSync that returns false because no proxy was created
\* leaves the entry of the target without a proxy, and the entry stays so
\* until an instanceFor for the target is called.  The next callSync to the
\* target constructs a proxy in its first attempt if the entry is still
\* without one, and uses the proxy of the entry if a registerCallback or the
\* callSync of another thread has created one in between; it returns true
\* if its first attempt has a proxy and the remote call returns the declared
\* outputs.
C18_NextCallCreatesIfNone ==
    [][ /\ \A t \in Threads :
            (hist[t].fail # "proxy" /\ hist'[t].fail = "proxy")
               => proxies'[hist'[t].target] = NULL
        /\ \A g \in Targets :
            (proxies[g] = NULL /\ proxies'[g] # NULL)
               => \E u \in Threads : LookupBy(u) /\ hist'[u].target = g
        /\ \A t \in Threads :
            trail.of[t].fail = "proxy" =>
              /\ FirstLookup(t) =>
                   IF proxies[hist'[t].target] = NULL
                   THEN Creates(t)
                   ELSE /\ ~hist'[t].made
                        /\ proxy'[t] = proxies[hist'[t].target]
                        /\ UNCHANGED <<proxies, gproxies>>
              /\ FirstAttemptDecided(t) => result'[t]
      ]_vars

\* thread t1 is returning true from the callSync that followed one which had
\* returned for a proxy that was not created; no other instanceFor was called
\* in between, and the first attempt created the proxy and made the remote
\* call
C18_Witness ==
    /\ trail.of["t1"].fail = "proxy"
    /\ Returning("t1")
    /\ result["t1"]
    /\ hist["t1"].nLookup = 1
    /\ hist["t1"].made
    /\ proxy["t1"] = 1
    /\ ~alive["B"]
    /\ signal_map = EmptyMap

\* the callSync of thread t returns in this step
Leaves(t) == pc[t] = "done" /\ pc'[t] = "idle"

Fits(hs, shape) ==
    /\ Len(hs) = Len(shape)
    /\ \A i \in DOMAIN shape : hs[i].type = shape[i]

\* C20: GDBusTuple::assign(handles) returns true if and only if the number
\* of handles equals the number of fields the derived struct declares and,
\* at every position in declaration order, the handle holds the wire type of
\* the declared field; after a true assign, reading field i yields the value
\* of handle i, both straight after the assign and at any later read of the
\* tuple that holds those handles.
C20_AssignTrueIffShape ==
    [][ /\ tuple_op'.op = "assign" =>
             (tuple_op'.res <=>
                 Fits(tuple_op'.arg, TupleShape(tuple_op'.tuple)))
        /\ ( /\ tuple_op.op = "assign"
             /\ tuple_op.res
             /\ tuple_op'.op = "read"
             /\ tuple_op'.tuple = tuple_op.tuple )
           => /\ tuple_op'.res
              /\ tuple_op'.ret = tuple_op.arg[tuple_op'.at].val
        /\ ( /\ tuple_op'.op = "read"
             /\ tuple_op'.tuple \in DOMAIN tuples'
             /\ Fits(tuples'[tuple_op'.tuple].vars,
                     TupleShape(tuple_op'.tuple)) )
           => /\ tuple_op'.res
              /\ tuple_op'.ret =
                     tuples'[tuple_op'.tuple].vars[tuple_op'.at].val
      ]_vars

\* the tuple at T1 took a string and an integer, the tuple at T2 is alive as
\* well, and the member value of the tuple at T1 reads the integer
C20_Witness ==
    /\ tuple_op.op = "read"
    /\ tuple_op.tuple = "T1"
    /\ tuple_op.at = 2
    /\ tuple_op.res
    /\ tuple_op.ret = "7"
    /\ gdbustuples["T2"] = "live"
    /\ "T1" \in DOMAIN tuples
    /\ tuples["T1"].vars = <<GV("s", "x"), GV("i", "7")>>

\* this step belongs to a callSync
CallSyncStep == \E t \in Threads : pc'[t] # pc[t]

\* C21: a GDBusParam whose construction check fails (no call under
\* construction on the thread, or an address outside the body of the call
\* under construction) is inert: no callSync marshals or unmarshals it, no
\* callSync writes to its value, and no cleanup closure runs for it.
C21_FailedParamInert ==
    [][CallSyncStep =>
          /\ \A s \in StrayIds : cells'[s] = cells[s]
          /\ \A t \in Threads :
                this'[t] # NoCall =>
                   /\ hist'[t].nCleanup <= Cardinality(Outputs(this'[t]))
                   /\ hist'[t].nMarshal <=
                         Cardinality(DOMAIN ClassParams(this'[t])
                                     \ Outputs(this'[t]))]_vars

\* callSync of thread t calls proxy_t::instanceFor or g_dbus_proxy_call_sync
\* in this step
Transport(t) ==
    /\ this[t] # NoCall
    /\ \/ hist'[t].nLookup > hist[t].nLookup
       \/ hist'[t].nInvoke > hist[t].nInvoke

\* C22: whenever callSync looks up a proxy or makes the remote call for an
\* instance, the name, path, interface and method of the call passed
\* call_t::verboseCheckNoErr; a call that failed the check never gets as far
\* as the lookup.
C22_OnlyCheckedCallsReachTransport ==
    [][\A t \in Threads :
          Transport(t) => call_verboseCheckNoErr(call_objs[guard[t]])]_vars

\* callSync of thread t calls proxy_t::instanceFor in this step, for the n-th
\* attempt of the call
Attempt(t, n) ==
    /\ this[t] # NoCall
    /\ hist[t].nLookup = n - 1
    /\ hist'[t].nLookup = n

\* C23: within one callSync the lookup of the first attempt has the policy
\* USE_EXISTING and the lookup of every later attempt, the second and the
\* third, has the policy RECREATE, whatever the earlier attempts ended with;
\* the n-th lookup follows n - 1 remote calls.
C23_FirstExistingThenRecreate ==
    [][\A t \in Threads : \A n \in 1..MAX_ATTEMPTS :
          Attempt(t, n) =>
             /\ hist[t].nInvoke = n - 1
             /\ hist'[t].policy = IF n = 1 THEN USE_EXISTING ELSE RECREATE]_vars

\* the third lookup of a callSync, made with RECREATE after a remote call
\* that left neither a reply nor an error
C23_Witness ==
    \E t \in Threads :
        /\ pc[t] = "invoke"
        /\ hist[t].nLookup = 3
        /\ hist[t].policy = RECREATE
        /\ hist[t].sleeps = <<WAIT_MS>>

\* C24: when calls.get, the marshalling and the remote call of a callSync
\* succeeded and the unmarshalling fails at an output parameter, for a field
\* that is missing or of another type, after the output parameters before it
\* were unmarshalled into their values, callSync returns false and every
\* output parameter of the call, those already unmarshalled included, holds
\* the default value of its type on return.
C24_PartialDecodeIsReset ==
    \A t \in Threads :
        Returning(t) /\ hist[t].fail = "unmarshal" =>
            /\ ~result[t]
            /\ err[t] = NullErr /\ ~out_tuple[t].isnull
            /\ ~Decodable(this[t], out_tuple[t].children)
            /\ hist[t].nCleanup = Cardinality(Outputs(this[t]))
            /\ OutputsDefault(this[t])

\* the reply had the integer of the first output parameter of A and an
\* integer where the string of the second one was due
C24_Witness ==
    \E t \in Threads :
        /\ Returning(t) /\ hist[t].fail = "unmarshal" /\ this[t] = "A"
        /\ out_tuple[t].children = << GV("i", "7"), GV("i", "7") >>
        /\ cells["A"][1] = "0"

\* the declared 'in' parameters of the class of p
Inputs(p) == DOMAIN ClassParams(p) \ Outputs(p)

\* the marshaller of the 'in' parameter i of p has a GVariant to return: an
\* object path is well-formed
Encodable(p, i) ==
    ClassParams(p)[i].type = "o" => g_variant_is_object_path(cells[p][i])

\* the 'in' parameters of p up to the first one that is not encodable
UpToFirstBad(p) ==
    {j \in Inputs(p) : \A i \in Inputs(p) : ~Encodable(p, i) => j <= i}

\* C25: if the marshaller of an input parameter returns no GVariant, callSync
\* returns false; it has invoked no marshaller of a later input parameter,
\* has called neither proxy_t::instanceFor nor g_dbus_proxy_call_sync, has
\* not slept, and every output parameter holds the default value of its type.
C25_EncodingFailureAborts ==
    \A t \in Threads :
        ( /\ Returning(t)
          /\ guard[t] # NoCall
          /\ \E i \in Inputs(this[t]) : ~Encodable(this[t], i) )
        => /\ ~result[t]
           /\ hist[t].nMarshal = Cardinality(UpToFirstBad(this[t]))
           /\ hist[t].nLookup = 0
           /\ hist[t].nInvoke = 0
           /\ hist[t].sleeps = <<>>
           /\ proxy[t] = NULL
           /\ OutputsDefault(this[t])

\* the path of A is the empty string, after a call that had left values in
\* the output parameters: the marshaller of path was the only one invoked
C25_Witness ==
    \E t \in Threads :
        /\ Returning(t) /\ guard[t] = "A"
        /\ cells["A"][2] = ""
        /\ hist[t].nMarshal = 1
        /\ hist[t].nCleanup = 2
        /\ gproxies # <<>>

\* callSync of thread t is about to return after a remote call that left a
\* reply and no error
Replied(t) ==
    /\ Returning(t)
    /\ guard[t] # NoCall
    /\ err[t] = NullErr
    /\ ~out_tuple[t].isnull

\* C26: the output parameters are unmarshalled by position among the output
\* parameters alone: the i-th declared 'out' parameter, the 'in' parameters
\* declared between them not counted, takes the i-th field of the reply.  A
\* reply whose first fields have the types of the output parameters makes
\* callSync return true, fields beyond the outputs being ignored; a reply
\* with fewer fields than output parameters makes callSync return false.
C26_OutputsByPosition ==
    \A t \in Threads :
        Replied(t) =>
            LET p        == this[t]
                children == out_tuple[t].children
            IN  /\ Decodable(p, children) =>
                      /\ result[t]
                      /\ \A i \in Outputs(p) :
                            cells[p][i] = children[OutputRank(p, i)].val
                /\ Len(children) < Cardinality(Outputs(p)) => ~result[t]

\* the reply to B has two fields for the one output parameter of B, while a
\* callSync on A has taken the fields 1 and 2 into its members 1 and 4
C26_Witness ==
    \E t \in Threads, u \in Threads :
        /\ Replied(t) /\ this[t] = "B" /\ result[t]
        /\ Len(out_tuple[t].children) = 2
        /\ cells["B"][1] = "7"
        /\ Replied(u) /\ this[u] = "A" /\ result[u]
        /\ cells["A"][1] = "7" /\ cells["A"][4] = "x"

\* the latest proxy_t::instanceFor of the callSync of thread t returned a
\* proxy_t without a GDBusProxy
NoProxy(t) == this[t] # NoCall /\ hist[t].nLookup >= 1 /\ proxy[t] = NULL

C28_SleepOnlyAfterRetriable ==
    [][\A t \in Threads :
          this[t] # NoCall /\ pc'[t] # "idle" =>
             IF \E n \in 1..MAX_ATTEMPTS : Attempt(t, n)
               THEN hist'[t].sleeps =
                       IF hist[t].nLookup >= 1 /\ err[t] \in DownErrors
                         THEN Append(hist[t].sleeps, WAIT_MS)
                         ELSE hist[t].sleeps
               ELSE hist'[t].sleeps = hist[t].sleeps]_vars

\* three attempts: one of the retries followed a call that returned nothing,
\* and the last attempt ended with a retriable error
C28_Witness ==
    \E t \in Threads :
        /\ Returning(t)
        /\ hist[t].nInvoke = 3
        /\ hist[t].sleeps = <<WAIT_MS>>
        /\ err[t] \in DownErrors

\* the member of p that is its k-th 'in' parameter
InputAt(p, k) ==
    CHOOSE i \in Inputs(p) : Cardinality({j \in Inputs(p) : j <= i}) = k

\* the tuple of the values that the 'in' parameters of p hold, in the order
\* of their declaration
InputTuple(p) ==
    Tuple([k \in 1..Cardinality(Inputs(p)) |->
              GV(ClassParams(p)[InputAt(p, k)].type, cells[p][InputAt(p, k)])])

\* C29: the tuple that callSync gives to the remote call is made of the
\* values the input parameters hold when callSync is called, not of the
\* values given to their constructors; each marshaller is invoked once, in
\* the order of declaration, and every attempt of the callSync is given that
\* same tuple.
C29_InputsReadAtCallTime ==
    \A t \in Threads :
        this[t] # NoCall =>
            /\ Len(hist[t].sent) = hist[t].nInvoke
            /\ \A k \in DOMAIN hist[t].sent :
                  /\ hist[t].sent[k] = InputTuple(this[t])
                  /\ hist[t].nMarshal = Cardinality(Inputs(this[t]))

\* two attempts were given the path "/" and the count 5 that the caller had
\* assigned after the construction with "/p" and 0
C29_Witness ==
    \E t \in Threads :
        /\ this[t] = "A"
        /\ hist[t].sent = << Tuple(<< GV("o", "/"), GV("i", "5") >>),
                             Tuple(<< GV("o", "/"), GV("i", "5") >>) >>

\* the use_count of the call data of p
Owners(p) == use_count(calls, p)

\* the use_count that the claim C30 gives to the call data of p
TwoWhileGuarded(p) == IF \E t \in Threads : guard[t] = p THEN 2 ELSE 1

\* C30 (as stated): when every instance is used by one thread at a time and
\* is not destroyed during a call, the use_count of its call data is exactly
\* 2 while a guard of calls.get is outstanding and exactly 1 otherwise; so
\* after any callSync a later callSync on the instance passes the check of
\* the ownership, and callSync-s that run at the same time on distinct
\* instances never fail it.
C30_TwoOwnersWhileGuarded ==
    [][/\ \A p \in CallIds :
             alive'[p] => Owners(p)' = TwoWhileGuarded(p)'
       /\ \A t \in Threads, p \in CallIds :
             Enters(t, p) /\ ~Overlapped(t, p) =>
                guard'[t] = p /\ "owners" \notin hist'[t].log]_vars

\* C30 (amended): the same while call_storage_t has not been destroyed; once
\* it is destroyed the map no longer owns the call data, a guard that is
\* outstanding is the only owner, and a later callSync fails on the check of
\* the state before it gets to the check of the ownership.
C30_TwoOwnersUntilTeardown ==
    [][/\ ~storage_destroyed' =>
             \A p \in CallIds :
                alive'[p] => Owners(p)' = TwoWhileGuarded(p)'
       /\ storage_destroyed' =>
             \A p \in CallIds :
                Owners(p)' = TwoWhileGuarded(p)' - 1
       /\ \A t \in Threads, p \in CallIds :
             Enters(t, p) /\ ~Overlapped(t, p) =>
                IF storage_destroyed
                  THEN guard'[t] = NoCall /\ hist'[t].log = {"destroyed"}
                  ELSE guard'[t] = p /\ "owners" \notin hist'[t].log]_vars

\* a callSync on A has its guard after an earlier callSync on A failed, while
\* a callSync on B holds the guard of B
C30_Witness ==
    /\ ~storage_destroyed
    /\ guard["t1"] = "A" /\ guard["t2"] = "B"
    /\ use_count(calls, "A") = 2 /\ use_count(calls, "B") = 2
    /\ ~OutputsDefault("B")
    /\ pc["t1"] = "invoke" /\ pc["t2"] = "invoke"

\* ------------------------------------------------------------------------
\* C35: after the assignment a = b of GDBusVariant-s, a resolves to what b
\* resolved to before the assignment (to no value if b had none) and b
\* resolves to what it resolved to before, also when a and b are the same
\* GDBusVariant.
\* ------------------------------------------------------------------------
C35_AssignTakesValue ==
    [][ vhist'.op = "assign" =>
          LET a == vhist'.h
              b == vhist'.src
          IN  /\ HandleValue(variants', gvariants', a)
                   = HandleValue(variants, gvariants, b)
              /\ HandleValue(variants', gvariants', b)
                   = HandleValue(variants, gvariants, b)
      ]_vars

\* thread t makes the call variants.insert(this, ...) of operator= in this
\* step
Inserts(t) == assigning[t].pc = "insert" /\ assigning'[t].pc = "idle"

\* the reference that the variant_t gv held is released in this step
Released(gv) ==
    gv # NullGV => gvariants'[gv].refs = gvariants[gv].refs - 1

\* ------------------------------------------------------------------------
\* C31 (as stated): variants_map_t::insert(key, v) replaces: if the key
\* already has an entry, after insert the key maps to v and the value of the
\* old entry is released.
\* ------------------------------------------------------------------------
C31_InsertReplaces ==
    [][\A t \in Threads :
          Inserts(t) /\ assigning[t].self \in DOMAIN variants =>
             /\ variants'[assigning[t].self] = assigning[t].tmp
             /\ variants[assigning[t].self] # assigning[t].tmp =>
                   Released(variants[assigning[t].self])]_vars

\* C31 (amended): variants_map_t::insert(key, v) does not replace: if the
\* key already has an entry, after insert the key maps to the old value as
\* before and v is released; if the key has no entry, after insert the key
\* maps to v, which is not released.
C31_InsertKeepsEntry ==
    [][\A t \in Threads :
          Inserts(t) =>
             IF assigning[t].self \in DOMAIN variants
             THEN /\ variants' = variants
                  /\ Released(assigning[t].tmp)
                  /\ \A g \in DOMAIN gvariants \ {assigning[t].tmp} :
                        gvariants'[g] = gvariants[g]
             ELSE /\ variants' = MapPut(variants, assigning[t].self,
                                        assigning[t].tmp)
                  /\ gvariants' = gvariants]_vars

\* two threads have assigned different values to the same GDBusVariant; the
\* insert of the second one found the entry of the first and did not change
\* it
C31_Witness ==
    /\ vhist.op = "insert"
    /\ ~vhist.res
    /\ HandleValue(variants, gvariants, vhist.h) = GV("i", "7")
    /\ HandleValue(variants, gvariants, vhist.src) = GV("s", "x")

\* thread t waits for a mutex that thread u holds
WaitsFor(t, u) ==
    /\ locking[t].events # <<>>
    /\ Head(locking[t].events).e = "lock"
    /\ Head(locking[t].events).m \in locking[u].held

C33_CallbacksOnWaitThread ==
    [][Ran /\ delivered'.callbacks # <<>> =>
          /\ delivered'.by \in Threads
          /\ pc[delivered'.by] = "waiting"]_vars

\* ------------------------------------------------------------------------
\* C34: if stopProcessingSignals is called, by another thread or by a
\* callback, while a thread is inside waitAndProcessSignals (WAIT_FOREVER
\* included), that waitAndProcessSignals eventually returns, and returns
\* false; without a stopProcessingSignals, waitAndProcessSignals with a
\* finite wait_msec eventually returns true, also when no signal arrives.
\* ------------------------------------------------------------------------
C34_StopEndsWait ==
    /\ \A t \in Threads :
          (InWait(t) /\ loop = "null") ~> (pc[t] = "waited" /\ ~result[t])
    /\ \A t \in Threads :
          (InWait(t) /\ timeout[t].wait_msec = "finite") ~>
             (pc[t] = "waited" /\ (result[t] \/ loop = "null"))

\* ------------------------------------------------------------------------
\* C36: the GDBusProxy that an attempt of callSync got from instanceFor is
\* alive until g_dbus_proxy_call_sync of that attempt has returned, whatever
\* other threads do that look up the same target, a retry with RECREATE
\* included.
\* ------------------------------------------------------------------------
C36_ProxyLiveDuringCall ==
    \A t \in Threads :
        pc[t] = "invoke" => gproxies[proxy[t]].live

\* thread t runs registerCallback in this step
Registers(t) == pc[t] = "idle" /\ pc'[t] = "registered"

\* the vector v begins with the vector w
BeginsWith(v, w) == Len(w) <= Len(v) /\ SubSeq(v, 1, Len(w)) = w

\* registerCallback adds its callback at the end of the vector of its key,
\* whatever it returns, and no step removes a callback
C37_Registered ==
    /\ \A t \in Threads :
          Registers(t) =>
             \E sg \in SignalNames, cb \in Callbacks :
                signal_map' = signals_add(signal_map,
                                 fromName(obj_name_of(hist'[t].target)),
                                 sg, cb)
    /\ \A k \in DOMAIN signal_map :
          BeginsWith(Registered(signal_map', k), signal_map[k])

\* ------------------------------------------------------------------------
\* C37: registerCallback adds the callback to signal_map before it looks up
\* the proxy and whatever the lookup gives: when registerCallback returns
\* false the callback stays registered, and it is called at a later signal
\* of that name of a proxy of that sender, once any operation has created
\* one.
\* ------------------------------------------------------------------------
C37_FailedRegistrationStays ==
    [][ /\ C37_Registered
        /\ Ran /\ gproxies[delivered'.proxy].live =>
              BeginsWith(delivered'.callbacks,
                 Registered(signal_map,
                    key(obj_name_of(gproxies[delivered'.proxy].target),
                        delivered'.signal)))
      ]_vars

\* the instance p is constructed in this step
Constructs(p) == ~alive[p] /\ alive'[p]

\* ------------------------------------------------------------------------
\* C38: calls.get(p) for a p that is not registered returns an empty guard
\* and leaves the map of the calls as it is (an identity without an entry
\* gets one from a constructor only); so an instance that is constructed at
\* p later is registered, and calls.get gives its callSync a guard that is
\* not empty.
\* ------------------------------------------------------------------------
C38_AcquireLeavesTable ==
    [][~storage_destroyed =>
          /\ \A p \in CallIds :
                p \notin DOMAIN calls /\ p \in DOMAIN calls' => Constructs(p)
          /\ \A p \in CallIds :
                Constructs(p) => p \in DOMAIN calls' /\ calls'[p] = Ptr
          /\ \A t \in Threads, p \in CallIds :
                Enters(t, p) /\ ~Overlapped(t, p) => guard'[t] = p]_vars

\* ------------------------------------------------------------------------
\* C39: every callSync returns, provided every instanceFor and every
\* g_dbus_proxy_call_sync returns: it makes at most 3 remote calls, at most
\* 3 calls of instanceFor and at most 2 sleeps, and on every path on which
\* it returns its call_guard has been destroyed.
\* ------------------------------------------------------------------------
C39_CallSyncTerminates ==
    /\ [](\A t \in Threads :
            /\ hist[t].nInvoke <= MAX_ATTEMPTS
            /\ hist[t].nLookup <= MAX_ATTEMPTS
            /\ Len(hist[t].sleeps) <= MAX_ATTEMPTS - 1
            /\ pc[t] = "idle" => guard[t] = NoCall)
    /\ \A t \in Threads : (pc[t] # "idle") ~> (pc[t] = "idle")

\* a callSync has made three remote calls on three lookups with two sleeps
\* and is about to return false, its guard not yet destroyed
C39_Witness ==
    \E t \in Threads :
        /\ Returning(t) /\ ~result[t] /\ guard[t] # NoCall
        /\ hist[t].nInvoke = MAX_ATTEMPTS
        /\ hist[t].nLookup = MAX_ATTEMPTS
        /\ Len(hist[t].sleeps) = MAX_ATTEMPTS - 1

====
